---- MODULE Spec2Model ----
(***************************************************************************)
(* A model of the settlement and accounting core of the tipping            *)
(* application: the storage boundary (tables, constraints, triggers and    *)
(* row-level policies of the migration kept in Layout.tsx) and the client  *)
(* handlers that read and write through it (Dashboard.tsx, TipCard.tsx,    *)
(* the tips feed, the user history and the leaderboard).                   *)
(*                                                                         *)
(* Money is modelled exactly: a DECIMAL(10,2) column holds an integer      *)
(* number of hundredths, an amount typed by a user an integer number of    *)
(* thousandths, and a profit an integer number of ten-thousandths (the     *)
(* product of two DECIMAL(10,2) values).                                   *)
(***************************************************************************)
EXTENDS Integers, Sequences, FiniteSets, TLC

\* The clock runs over 0..MaxTime.
MaxTime == 1

VARIABLES
    now,            \* now() at the storage boundary
    user_roles,     \* table public.user_roles: rows [user_id, role]
    tips,           \* table public.tips: rows keyed by id
    user_tracking,  \* table public.user_tracking: rows keyed by id
    resp,           \* what the storage boundary answered to the last request
    toast,          \* the last toast a client showed
    feedTips,       \* tips feed (Index): the fetched tips, per session
    feedTipsStale,  \* tips feed: a fetchTips call is outstanding
    trackedTips,    \* tips feed: the fetched set of tracked tip ids
    trackedStale,   \* tips feed: a fetchTracking call is outstanding
    dashTips,       \* moderator dashboard: the fetched tips, per session
    dashTipsStale,  \* moderator dashboard: a fetchTips call is outstanding
    trackingData,   \* leaderboard: the rows the backend returned, in order
    entries,        \* leaderboard: the ranked list it shows
    tip_reactions,  \* table public.tip_reactions: rows [user_id, tip_id,
                    \* reaction_type]
    reactions,      \* tips feed: the fetched per-tip reaction summary
    reactionsStale, \* tips feed: a fetchReactions call is outstanding
    dashTracking,   \* moderator dashboard: the fetched user_tracking rows
    dashTrackingStale, \* moderator dashboard: fetchTracking is outstanding
    createForm,     \* moderator dashboard: the fields of the create form
    submitting,     \* moderator dashboard: the submitting flag
    stake,          \* tip card: the text of the stake field
    stakeOpen,      \* tip card: the stake dialog is open
    role,           \* AuthProvider: the role state, per session
    roleData,       \* AuthProvider: answers to fetchRole not yet handled
    session,        \* AuthProvider: the session state is not null
    tip_comments,   \* table public.tip_comments: rows keyed by id
    comments,       \* TipComments: the fetched comments of the card's tip
    newComment,     \* TipComments: the text of the comment field
    loading,        \* TipComments: the loading flag
    tipsResponses,  \* tips feed: answers to fetchTips not yet handled
    reactionsViewer,\* tips feed: the user the outstanding fetchReactions
                    \* call was made with
    auth_users      \* table auth.users: the ids of the registered users

store == <<now, user_roles, tips, user_tracking, tip_reactions>>

feed == <<feedTips, feedTipsStale, trackedTips, trackedStale, reactions,
          reactionsStale>>

dash == <<dashTips, dashTipsStale, dashTracking, dashTrackingStale>>

board == <<trackingData, entries>>

forms == <<createForm, submitting, stake, stakeOpen>>

auth == <<role, roleData, session, auth_users>>

chat == <<tip_comments, comments, newComment, loading>>

wire == <<tipsResponses, reactionsViewer>>

vars == <<now, user_roles, tips, user_tracking, resp, toast, feedTips,
          feedTipsStale, trackedTips, trackedStale, dashTips, dashTipsStale,
          trackingData, entries, tip_reactions, reactions, reactionsStale,
          dashTracking, dashTrackingStale, createForm, submitting, stake,
          stakeOpen, role, roleData, session, tip_comments, comments,
          newComment, loading, tipsResponses, reactionsViewer, auth_users>>

(***************************************************************************)
(* Identities and enumerations                                             *)
(***************************************************************************)
\* auth.uid() of a request that carries no session.
Anon == "anon"

\* auth.users: two plain users, a moderator and an admin.
Users == {"alice", "bob", "mod", "root"}

\* Whoever can send a request to the storage boundary.
Actors == Users \cup {Anon}

app_role == {"admin", "moderator", "user"}

tip_status == {"pending", "won", "lost", "void"}

\* SQL NULL in a nullable column.
Null == "NULL"

\* handle_new_user gives every account the role user; mod and root were
\* granted their second role by an admin.
InitialRoles ==
    {[user_id |-> u, role |-> "user"] : u \in Users}
        \cup {[user_id |-> "mod", role |-> "moderator"],
              [user_id |-> "root", role |-> "admin"]}

TipIds == {"t1", "t2"}

(***************************************************************************)
(* Storage boundary: roles and the tips table                              *)
(***************************************************************************)
\* A policy declared TO authenticated applies to requests with a session.
Authenticated(actor) == actor # Anon

has_role(_user_id, _role) ==
    \E r \in user_roles : r.user_id = _user_id /\ r.role = _role

\* "Moderators can create tips": FOR INSERT TO authenticated WITH CHECK.
tips_insert_policy(actor) ==
    Authenticated(actor)
        /\ (has_role(actor, "moderator") \/ has_role(actor, "admin"))

\* The update policy as it would be had it only asked for a session: C5 must
\* notice.
tips_update_policy_any_session(actor) == Authenticated(actor)

\* "Moderators can update tips": FOR UPDATE TO authenticated USING.
tips_update_policy(actor) ==
    Authenticated(actor)
        /\ (has_role(actor, "moderator") \/ has_role(actor, "admin"))

\* "Moderators can delete tips": FOR DELETE TO authenticated USING.
tips_delete_policy(actor) ==
    Authenticated(actor)
        /\ (has_role(actor, "moderator") \/ has_role(actor, "admin"))

\* "Anyone can read tips": FOR SELECT USING (true).
tips_select_policy(actor) == TRUE

\* The columns of public.tips an UPDATE may name (id and created_at are left
\* out of the model; updated_at is written by its trigger).
TipColumns ==
    {"created_by", "match_name", "sport", "bet_type", "odds", "status",
     "analysis", "match_start_time"}

TipIdsIn(tbl) == {r.id : r \in tbl}

TipById(tbl, id) == CHOOSE r \in tbl : r.id = id

\* NEW of an UPDATE ... SET: patch is a set of <<column, value>> pairs, at
\* most one per column.
ApplyPatch(old, patch) ==
    [c \in DOMAIN old |->
        IF \E p \in patch : p[1] = c
            THEN (CHOOSE p \in patch : p[1] = c)[2]
            ELSE old[c]]

\* The trigger as it would be had it forgotten match_name: C3 must notice.
enforce_tip_anti_cheat_without_match_name(old, new, t) ==
    old.match_start_time <= t
        /\ (new.bet_type # old.bet_type \/ new.odds # old.odds)

\* Trigger tip_anti_cheat (BEFORE UPDATE): TRUE when it raises.
enforce_tip_anti_cheat(old, new, t) ==
    old.match_start_time <= t
        /\ (new.bet_type # old.bet_type
            \/ new.odds # old.odds
            \/ new.match_name # old.match_name)

\* Trigger update_tips_updated_at (BEFORE UPDATE): the row it returns.
update_updated_at_column(new, t) == [new EXCEPT !.updated_at = t]

AntiCheatMessage ==
    "Cannot edit tip details after match has started. Only status can be updated."

RlsMessage == "new row violates row-level security policy"

NoError == "null"

Response(op, actor, error, rows) ==
    [op |-> op, actor |-> actor, error |-> error, rows |-> rows]

(***************************************************************************)
(* Statements on the tips table: what each does to the table and what it   *)
(* answers                                                                 *)
(***************************************************************************)
\* An insert that stores the row it reports as refused.
tips_insert_stores_refused(actor, row) ==
    IF tips_insert_policy(actor)
        THEN [tips |-> tips \cup {row}, error |-> NoError, rows |-> 1]
        ELSE [tips |-> tips \cup {row}, error |-> RlsMessage, rows |-> 0]

\* INSERT INTO tips: the policy's WITH CHECK decides.
tips_insert(actor, row) ==
    IF tips_insert_policy(actor)
        THEN [tips |-> tips \cup {row}, error |-> NoError, rows |-> 1]
        ELSE [tips |-> tips, error |-> RlsMessage, rows |-> 0]

\* UPDATE tips SET patch WHERE id = id.  A row the USING clause hides is not
\* a target: the statement then updates nothing and reports no error.  The
\* BEFORE UPDATE triggers fire in name order: tip_anti_cheat, then
\* update_tips_updated_at.
tips_update(actor, id, patch) ==
    IF id \notin TipIdsIn(tips) \/ ~tips_update_policy(actor)
        THEN [tips |-> tips, error |-> NoError, rows |-> 0]
        ELSE LET old == TipById(tips, id)
                 new == ApplyPatch(old, patch)
             IN  IF enforce_tip_anti_cheat(old, new, now)
                   THEN [tips |-> tips, error |-> AntiCheatMessage, rows |-> 0]
                   ELSE [tips |-> (tips \ {old})
                                    \cup {update_updated_at_column(new, now)},
                         error |-> NoError, rows |-> 1]

\* DELETE FROM tips WHERE id = id; user_tracking.tip_id,
\* tip_reactions.tip_id and tip_comments.tip_id are declared ON DELETE
\* CASCADE, and a cascade is not subject to row-level policies.
tips_delete(actor, id) ==
    IF id \notin TipIdsIn(tips) \/ ~tips_delete_policy(actor)
        THEN [tips |-> tips, user_tracking |-> user_tracking,
              tip_reactions |-> tip_reactions,
              tip_comments |-> tip_comments,
              error |-> NoError, rows |-> 0]
        ELSE [tips |-> {r \in tips : r.id # id},
              user_tracking |-> {r \in user_tracking : r.tip_id # id},
              tip_reactions |-> {r \in tip_reactions : r.tip_id # id},
              tip_comments |-> {r \in tip_comments : r.tip_id # id},
              error |-> NoError, rows |-> 1]

\* SELECT * FROM tips: the rows the SELECT policy shows to the actor.
tips_select(actor) == {r \in tips : tips_select_policy(actor)}

(***************************************************************************)
(* The user_tracking table                                                 *)
(***************************************************************************)
\* An amount in thousandths stored in a DECIMAL(10,2) column: rounded to
\* hundredths, half away from zero.
numeric_10_2(milli) ==
    IF milli >= 0 THEN (milli + 5) \div 10 ELSE -((5 - milli) \div 10)

\* "Users insert own tracking": FOR INSERT TO authenticated WITH CHECK.
tracking_insert_policy(actor, row) ==
    Authenticated(actor) /\ actor = row.user_id

\* The delete policy as it would be had it only asked for a session: C9
\* must notice.
tracking_delete_policy_any_session(actor, row) == Authenticated(actor)

\* "Users delete own tracking": FOR DELETE TO authenticated USING.
tracking_delete_policy(actor, row) ==
    Authenticated(actor) /\ actor = row.user_id

\* "Users read own tracking": FOR SELECT TO authenticated USING.
tracking_select_policy(actor, row) ==
    Authenticated(actor)
        /\ (actor = row.user_id
            \/ has_role(actor, "moderator") \/ has_role(actor, "admin"))

\* No policy is declared FOR UPDATE on user_tracking: with row-level
\* security enabled, no row is a target of an UPDATE.
tracking_update_policy(actor, row) == FALSE

\* CHECK (stake > 0).
stake_check(row) == row.stake > 0

\* The table as it would be had it no unique constraint: C6 must notice.
unique_user_tip_missing(tbl, row) == FALSE

\* UNIQUE(user_id, tip_id): TRUE when the new row conflicts.
unique_user_tip(tbl, row) ==
    \E r \in tbl : r.user_id = row.user_id /\ r.tip_id = row.tip_id

\* tip_id REFERENCES public.tips(id).
tip_id_fkey(row) == row.tip_id \in TipIdsIn(tips)

CheckMessage ==
    "new row for relation \"user_tracking\" violates check constraint"

DuplicateMessage == "duplicate key value violates unique constraint"

FkeyMessage ==
    "insert or update on table \"user_tracking\" violates foreign key constraint"

\* gen_random_uuid(): a fresh id; the model takes <<user, tip, k>> with the
\* least k that makes it fresh.
TrackingCopies(tbl, user_id, tip_id) ==
    {r \in tbl : r.user_id = user_id /\ r.tip_id = tip_id}

FreshTrackingId(tbl, user_id, tip_id) ==
    <<user_id, tip_id,
      CHOOSE k \in 1..(Cardinality(TrackingCopies(tbl, user_id, tip_id)) + 1) :
          \A r \in TrackingCopies(tbl, user_id, tip_id) : r.id[3] # k>>

\* INSERT INTO user_tracking (user_id, tip_id, stake).  The row is checked
\* in the order the executor checks it: the policy's WITH CHECK, the CHECK
\* constraint, the unique index, then the foreign key.
tracking_insert(actor, user_id, tip_id, milli) ==
    LET row == [id |-> FreshTrackingId(user_tracking, user_id, tip_id),
                user_id |-> user_id, tip_id |-> tip_id,
                stake |-> numeric_10_2(milli)]
        refused(msg) == [user_tracking |-> user_tracking,
                         error |-> msg, rows |-> 0]
    IN  IF ~tracking_insert_policy(actor, row) THEN refused(RlsMessage)
        ELSE IF ~stake_check(row) THEN refused(CheckMessage)
        ELSE IF unique_user_tip(user_tracking, row)
            THEN refused(DuplicateMessage)
        ELSE IF ~tip_id_fkey(row) THEN refused(FkeyMessage)
        ELSE [user_tracking |-> user_tracking \cup {row},
              error |-> NoError, rows |-> 1]

\* DELETE FROM user_tracking WHERE user_id = .. AND tip_id = ..
tracking_delete(actor, user_id, tip_id) ==
    LET targets == {r \in TrackingCopies(user_tracking, user_id, tip_id) :
                        tracking_delete_policy(actor, r)}
    IN  [user_tracking |-> user_tracking \ targets,
         error |-> NoError, rows |-> Cardinality(targets)]

\* UPDATE user_tracking SET stake = .. WHERE user_id = .. AND tip_id = ..
tracking_update(actor, user_id, tip_id, milli) ==
    LET targets == {r \in TrackingCopies(user_tracking, user_id, tip_id) :
                        tracking_update_policy(actor, r)}
    IN  [user_tracking |->
             (user_tracking \ targets)
                 \cup {[r EXCEPT !.stake = numeric_10_2(milli)] : r \in targets},
         error |-> NoError, rows |-> Cardinality(targets)]

\* SELECT * FROM user_tracking: the rows the SELECT policy shows.
tracking_select(actor) ==
    {r \in user_tracking : tracking_select_policy(actor, r)}

(***************************************************************************)
(* The tip_reactions table.  The statements take the table as an argument  *)
(* so that a statement can be applied to the result of another.            *)
(***************************************************************************)
\* The reaction types the tip card sends: onReact("like"), onReact("fire").
ReactionTypes == {"like", "fire"}

\* "Users insert own reactions": FOR INSERT TO authenticated WITH CHECK.
reaction_insert_policy(actor, row) ==
    Authenticated(actor) /\ actor = row.user_id

\* "Users delete own reactions": FOR DELETE TO authenticated USING.
reaction_delete_policy(actor, row) ==
    Authenticated(actor) /\ actor = row.user_id

\* "Anyone can read reactions": FOR SELECT USING (true).
reaction_select_policy(actor, row) == TRUE

\* The table as it would be had it no unique constraint: C17 must notice.
unique_reaction_missing(tbl, row) == FALSE

\* UNIQUE(user_id, tip_id, reaction_type): TRUE when the new row conflicts.
unique_reaction(tbl, row) ==
    \E r \in tbl : /\ r.user_id = row.user_id
                   /\ r.tip_id = row.tip_id
                   /\ r.reaction_type = row.reaction_type

ReactionCopies(tbl, user_id, tip_id, type) ==
    {r \in tbl : /\ r.user_id = user_id
                 /\ r.tip_id = tip_id
                 /\ r.reaction_type = type}

\* gen_random_uuid(): the least k that makes <<user, tip, type, k>> fresh.
FreshReactionId(tbl, user_id, tip_id, type) ==
    <<user_id, tip_id, type,
      CHOOSE k \in 1..(Cardinality(ReactionCopies(tbl, user_id, tip_id, type)) + 1) :
          \A r \in ReactionCopies(tbl, user_id, tip_id, type) : r.id[4] # k>>

\* INSERT INTO tip_reactions (user_id, tip_id, reaction_type): the policy's
\* WITH CHECK, the unique index, then the foreign key on tip_id.
reaction_insert(tbl, actor, user_id, tip_id, type) ==
    LET row == [id |-> FreshReactionId(tbl, user_id, tip_id, type),
                user_id |-> user_id, tip_id |-> tip_id,
                reaction_type |-> type]
    IN  IF ~reaction_insert_policy(actor, row)
            THEN [tip_reactions |-> tbl, error |-> RlsMessage, rows |-> 0]
        ELSE IF unique_reaction(tbl, row)
            THEN [tip_reactions |-> tbl, error |-> DuplicateMessage, rows |-> 0]
        ELSE IF tip_id \notin TipIdsIn(tips)
            THEN [tip_reactions |-> tbl, error |-> FkeyMessage, rows |-> 0]
        ELSE [tip_reactions |-> tbl \cup {row}, error |-> NoError, rows |-> 1]

\* DELETE FROM tip_reactions WHERE user_id = .. AND tip_id = .. AND
\* reaction_type = ..
reaction_delete(tbl, actor, user_id, tip_id, type) ==
    LET targets == {r \in ReactionCopies(tbl, user_id, tip_id, type) :
                        reaction_delete_policy(actor, r)}
    IN  [tip_reactions |-> tbl \ targets, error |-> NoError,
         rows |-> Cardinality(targets)]

\* SELECT * FROM tip_reactions.
reaction_select(tbl, actor) == {r \in tbl : reaction_select_policy(actor, r)}

(***************************************************************************)
(* The tip_comments table                                                  *)
(***************************************************************************)
\* "Users insert own comments": FOR INSERT TO authenticated WITH CHECK.
comment_insert_policy(actor, row) ==
    Authenticated(actor) /\ actor = row.user_id

\* "Users delete own comments": FOR DELETE TO authenticated USING.
comment_delete_policy(actor, row) ==
    Authenticated(actor) /\ actor = row.user_id

\* "Anyone can read comments".
comment_select_policy(actor, row) == TRUE

\* The ids gen_random_uuid() may give to comments.
CommentIds == {"c1", "c2"}

\* INSERT INTO tip_comments (user_id, tip_id, content): the policy's WITH
\* CHECK, then the foreign key on tip_id.  content is TEXT NOT NULL and
\* carries no other constraint.
comment_insert(actor, user_id, tip_id, content) ==
    LET row == [id |-> CHOOSE c \in CommentIds :
                           \A r \in tip_comments : r.id # c,
                user_id |-> user_id, tip_id |-> tip_id, content |-> content]
    IN  IF ~comment_insert_policy(actor, row)
            THEN [tip_comments |-> tip_comments, error |-> RlsMessage,
                  rows |-> 0]
        ELSE IF tip_id \notin TipIdsIn(tips)
            THEN [tip_comments |-> tip_comments, error |-> FkeyMessage,
                  rows |-> 0]
        ELSE [tip_comments |-> tip_comments \cup {row}, error |-> NoError,
              rows |-> 1]

\* DELETE FROM tip_comments WHERE id = id.
comment_delete(actor, id) ==
    LET targets == {r \in tip_comments :
                        r.id = id /\ comment_delete_policy(actor, r)}
    IN  [tip_comments |-> tip_comments \ targets, error |-> NoError,
         rows |-> Cardinality(targets)]

\* SELECT * FROM tip_comments WHERE tip_id = tip_id.
comment_select(actor, tip_id) ==
    {r \in tip_comments : r.tip_id = tip_id /\ comment_select_policy(actor, r)}

(***************************************************************************)
(* Clients                                                                 *)
(***************************************************************************)
\* Browser sessions showing the tips feed, and the user signed in to each.
FeedSessions == {"s1", "s2"}

\* Browser sessions showing the moderator dashboard.
DashSessions == {"d1", "d2"}

SessionUser(s) ==
    CASE s = "s1" -> "alice"
      [] s = "s2" -> "alice"
      [] s = "d1" -> "mod"
      [] s = "d2" -> "root"

Sessions == FeedSessions \cup DashSessions

\* The answer to from("user_roles").select("role").eq("user_id", userId):
\* "Roles readable by authenticated" shows every row to a signed-in user.
rolesOf(tbl, userId) == {r.role : r \in {x \in tbl : x.user_id = userId}}

\* A precedence that looks for moderator before admin.
highestRole_moderator_first(roles) ==
    IF "moderator" \in roles THEN "moderator"
    ELSE IF "admin" \in roles THEN "admin"
    ELSE "user"

\* The callback of fetchRole, given a non-empty answer.
highestRole(roles) ==
    IF "admin" \in roles THEN "admin"
    ELSE IF "moderator" \in roles THEN "moderator"
    ELSE "user"

\* const isModerator = role === "moderator" || role === "admin"
isModerator(s) == role[s] = "moderator" \/ role[s] = "admin"

\* The create form with every field empty, as useState("") leaves it.
EmptyForm ==
    [matchName |-> "", sport |-> "", betType |-> "", odds |-> "",
     analysis |-> "", matchStartTime |-> ""]

NoToast == [session |-> "none", text |-> ""]

Toast(s, text) == [session |-> s, text |-> text]

\* supabase_realtime publishes public.tips: a change of the table reaches
\* the feed's "tips-realtime" channel, whose callback calls fetchTips.
postgres_changes(changed) ==
    feedTipsStale' =
        IF changed THEN [s \in FeedSessions |-> TRUE] ELSE feedTipsStale

(***************************************************************************)
(* Requests sent straight to the storage boundary by any actor             *)
(***************************************************************************)
ApiTipsInsert(actor, row) ==
    /\ row.id \notin TipIdsIn(tips)
    /\ row.updated_at = now
    /\ LET r == tips_insert(actor, row)
       IN  /\ tips' = r.tips
           /\ resp' = Response("tips.insert", actor, r.error, r.rows)
           /\ postgres_changes(r.rows > 0)
    /\ UNCHANGED <<now, user_roles, user_tracking, tip_reactions, toast,
                   feedTips, trackedTips, trackedStale, reactions,
                   reactionsStale, dash, board, forms, auth, chat,
                   wire>>

ApiTipsUpdate(actor, id, patch) ==
    /\ LET r == tips_update(actor, id, patch)
       IN  /\ tips' = r.tips
           /\ resp' = Response("tips.update", actor, r.error, r.rows)
           /\ postgres_changes(r.rows > 0)
    /\ UNCHANGED <<now, user_roles, user_tracking, tip_reactions, toast,
                   feedTips, trackedTips, trackedStale, reactions,
                   reactionsStale, dash, board, forms, auth, chat,
                   wire>>

ApiTipsDelete(actor, id) ==
    /\ LET r == tips_delete(actor, id)
       IN  /\ tips' = r.tips
           /\ user_tracking' = r.user_tracking
           /\ tip_reactions' = r.tip_reactions
           /\ tip_comments' = r.tip_comments
           /\ resp' = Response("tips.delete", actor, r.error, r.rows)
           /\ postgres_changes(r.rows > 0)
    /\ UNCHANGED <<now, user_roles, toast, feedTips, trackedTips,
                   trackedStale, reactions, reactionsStale, dash, board,
                   forms, auth, comments, newComment, loading, wire>>

ApiTipsSelect(actor) ==
    /\ resp' = Response("tips.select", actor, NoError,
                        Cardinality(tips_select(actor)))
    /\ UNCHANGED <<store, toast, feed, dash, board, forms, auth, chat,
                   wire>>

\* Time passes.
Tick ==
    /\ now < MaxTime
    /\ now' = now + 1
    /\ UNCHANGED <<user_roles, tips, user_tracking, tip_reactions, resp,
                   toast, feed, dash, board, forms, auth, chat,
                   wire>>

ApiTrackingInsert(actor, user_id, tip_id, milli) ==
    /\ LET r == tracking_insert(actor, user_id, tip_id, milli)
       IN  /\ user_tracking' = r.user_tracking
           /\ resp' = Response("tracking.insert", actor, r.error, r.rows)
    /\ UNCHANGED <<now, user_roles, tips, tip_reactions, toast, feed, dash,
                   board, forms, auth, chat,
                   wire>>

ApiTrackingDelete(actor, user_id, tip_id) ==
    /\ LET r == tracking_delete(actor, user_id, tip_id)
       IN  /\ user_tracking' = r.user_tracking
           /\ resp' = Response("tracking.delete", actor, r.error, r.rows)
    /\ UNCHANGED <<now, user_roles, tips, tip_reactions, toast, feed, dash,
                   board, forms, auth, chat,
                   wire>>

ApiTrackingUpdate(actor, user_id, tip_id, milli) ==
    /\ LET r == tracking_update(actor, user_id, tip_id, milli)
       IN  /\ user_tracking' = r.user_tracking
           /\ resp' = Response("tracking.update", actor, r.error, r.rows)
    /\ UNCHANGED <<now, user_roles, tips, tip_reactions, toast, feed, dash,
                   board, forms, auth, chat,
                   wire>>

(***************************************************************************)
(* Moderator dashboard (Dashboard.tsx)                                     *)
(***************************************************************************)
\* fetchTips: called on mount and after a successful write of this session.
DashFetchTips(d) ==
    /\ dashTipsStale[d]
    /\ dashTips' = [dashTips EXCEPT ![d] = tips_select(SessionUser(d))]
    /\ dashTipsStale' = [dashTipsStale EXCEPT ![d] = FALSE]
    /\ UNCHANGED <<store, resp, toast, feed, dashTracking, dashTrackingStale,
                   board, forms, auth, chat,
                   wire>>

\* Dashboard.fetchTracking: called on mount only.
DashFetchTracking(d) ==
    /\ dashTrackingStale[d]
    /\ dashTracking' =
           [dashTracking EXCEPT ![d] = tracking_select(SessionUser(d))]
    /\ dashTrackingStale' = [dashTrackingStale EXCEPT ![d] = FALSE]
    /\ UNCHANGED <<store, resp, toast, feed, dashTips, dashTipsStale, board,
                   forms, auth, chat,
                   wire>>

(***************************************************************************)
(* AuthProvider and the user_roles table                                   *)
(***************************************************************************)
\* The insert policy as it would be had it only asked for a session.
roles_insert_policy_any_session(actor) == Authenticated(actor)

\* "Only admins manage roles", "Only admins update roles" and "Only admins
\* delete roles".
roles_insert_policy(actor) == Authenticated(actor) /\ has_role(actor, "admin")

roles_update_policy(actor) == Authenticated(actor) /\ has_role(actor, "admin")

roles_delete_policy(actor) == Authenticated(actor) /\ has_role(actor, "admin")

RolesFkeyMessage ==
    "insert or update on table \"user_roles\" violates foreign key constraint"

\* Whoever can send a request: a registered user with a session, or anon.
CanSend(actor) == actor = Anon \/ actor \in auth_users

\* handle_new_user, the SECURITY DEFINER trigger AFTER INSERT ON auth.users:
\* the table with the row (NEW.id, 'user') added, no policy consulted.
handle_new_user(NEW_id) ==
    user_roles \cup {[user_id |-> NEW_id, role |-> "user"]}

\* INSERT INTO user_roles (user_id, role): WITH CHECK, then
\* UNIQUE(user_id, role), then REFERENCES auth.users(id).
roles_insert(actor, user_id, _role) ==
    IF ~roles_insert_policy(actor)
        THEN [user_roles |-> user_roles, error |-> RlsMessage, rows |-> 0]
    ELSE IF has_role(user_id, _role)
        THEN [user_roles |-> user_roles, error |-> DuplicateMessage,
              rows |-> 0]
    ELSE IF user_id \notin auth_users
        THEN [user_roles |-> user_roles, error |-> RolesFkeyMessage,
              rows |-> 0]
    ELSE [user_roles |-> user_roles
                           \cup {[user_id |-> user_id, role |-> _role]},
          error |-> NoError, rows |-> 1]

\* DELETE FROM user_roles WHERE user_id = user_id AND role = role.
roles_delete(actor, user_id, _role) ==
    IF ~roles_delete_policy(actor) \/ ~has_role(user_id, _role)
        THEN [user_roles |-> user_roles, error |-> NoError, rows |-> 0]
        ELSE [user_roles |-> user_roles
                               \ {[user_id |-> user_id, role |-> _role]},
              error |-> NoError, rows |-> 1]

\* UPDATE user_roles SET role = newRole WHERE user_id = user_id AND
\* role = role: rows the USING expression hides are no target.
roles_update(actor, user_id, _role, newRole) ==
    IF ~roles_update_policy(actor) \/ ~has_role(user_id, _role)
        THEN [user_roles |-> user_roles, error |-> NoError, rows |-> 0]
    ELSE IF newRole # _role /\ has_role(user_id, newRole)
        THEN [user_roles |-> user_roles, error |-> DuplicateMessage,
              rows |-> 0]
    ELSE [user_roles |-> (user_roles \ {[user_id |-> user_id, role |-> _role]})
                           \cup {[user_id |-> user_id, role |-> newRole]},
          error |-> NoError, rows |-> 1]

\* supabase.auth.signUp of someone not yet registered: the row is added to
\* auth.users and the trigger on_auth_user_created runs handle_new_user.
signUp(id) ==
    /\ id \notin auth_users
    /\ auth_users' = auth_users \cup {id}
    /\ user_roles' = handle_new_user(id)
    /\ resp' = Response("auth.signUp", id, NoError, 1)
    /\ UNCHANGED <<now, tips, user_tracking, tip_reactions, toast, feed,
                   dash, board, forms, role, roleData, session, chat, wire>>

ApiRolesUpdate(actor, user_id, _role, newRole) ==
    /\ CanSend(actor)
    /\ LET r == roles_update(actor, user_id, _role, newRole)
       IN  /\ user_roles' = r.user_roles
           /\ resp' = Response("roles.update", actor, r.error, r.rows)
    /\ UNCHANGED <<now, tips, user_tracking, tip_reactions, toast, feed,
                   dash, board, forms, auth, chat,
                   wire>>

ApiRolesInsert(actor, user_id, _role) ==
    /\ CanSend(actor)
    /\ LET r == roles_insert(actor, user_id, _role)
       IN  /\ user_roles' = r.user_roles
           /\ resp' = Response("roles.insert", actor, r.error, r.rows)
    /\ UNCHANGED <<now, tips, user_tracking, tip_reactions, toast, feed,
                   dash, board, forms, auth, chat,
                   wire>>

ApiRolesDelete(actor, user_id, _role) ==
    /\ CanSend(actor)
    /\ LET r == roles_delete(actor, user_id, _role)
       IN  /\ user_roles' = r.user_roles
           /\ resp' = Response("roles.delete", actor, r.error, r.rows)
    /\ UNCHANGED <<now, tips, user_tracking, tip_reactions, toast, feed,
                   dash, board, forms, auth, chat,
                   wire>>

\* fetchRole(userId): the select is sent and answered; the answer waits
\* for the callback passed to then.
fetchRole(s) ==
    roleData' = [roleData EXCEPT
                    ![s] = @ \cup {rolesOf(user_roles, SessionUser(s))}]

\* Index's effect on [user]: a feed page calls fetchTracking after every
\* change of the user.
userEffect(s) ==
    trackedStale' = IF s \in FeedSessions
                        THEN [trackedStale EXCEPT ![s] = TRUE]
                        ELSE trackedStale

\* signIn: signInWithPassword succeeds and onAuthStateChange is called with
\* the new session, which calls fetchRole. A session restored on page load
\* arrives the same way.
signIn(s) ==
    /\ ~session[s]
    /\ session' = [session EXCEPT ![s] = TRUE]
    /\ fetchRole(s)
    /\ userEffect(s)
    /\ UNCHANGED <<store, resp, toast, feedTips, feedTipsStale, trackedTips,
                   reactions, reactionsStale, dash, board, chat, wire,
                   forms, role, auth_users>>

\* onAuthStateChange called again with the session (a refreshed token),
\* and getSession's callback on mount: fetchRole is called once more.
onAuthStateChange(s) ==
    /\ session[s]
    /\ rolesOf(user_roles, SessionUser(s)) \notin roleData[s]
    /\ fetchRole(s)
    /\ UNCHANGED <<store, resp, toast, feed, dash, board, chat, wire,
                   forms, role,
                   session, auth_users>>

\* The callback of fetchRole on an answer: a non-empty answer sets the
\* role, an empty one leaves it.
fetchRoleThen(s, data) ==
    /\ data \in roleData[s]
    /\ roleData' = [roleData EXCEPT ![s] = @ \ {data}]
    /\ role' = IF data # {} THEN [role EXCEPT ![s] = highestRole(data)]
               ELSE role
    /\ UNCHANGED <<store, resp, toast, feed, dash, board, chat, wire,
                   forms, session, auth_users>>

\* signOut: supabase.auth.signOut() ends the session, onAuthStateChange
\* and signOut itself set the role to user.
signOut(s) ==
    /\ session[s]
    /\ session' = [session EXCEPT ![s] = FALSE]
    /\ role' = [role EXCEPT ![s] = "user"]
    /\ userEffect(s)
    /\ UNCHANGED <<store, resp, toast, feedTips, feedTipsStale, trackedTips,
                   reactions, reactionsStale, dash, board, chat, wire,
                   forms, roleData, auth_users>>

\* What a user may have typed in the stake field and in the odds field,
\* which may also be left empty, and parseFloat of it in thousandths (nan:
\* not a number).
StakeTexts == {"", "0", "0.004", "10", "20"}

OddsTexts == {"1.005", "1.014"}

parseFloat(text) ==
    CASE text = "" -> [nan |-> TRUE, milli |-> 0]
      [] text = "0" -> [nan |-> FALSE, milli |-> 0]
      [] text = "0.004" -> [nan |-> FALSE, milli |-> 4]
      [] text = "10" -> [nan |-> FALSE, milli |-> 10000]
      [] text = "20" -> [nan |-> FALSE, milli |-> 20000]
      [] text = "1.005" -> [nan |-> FALSE, milli |-> 1005]
      [] text = "1.014" -> [nan |-> FALSE, milli |-> 1014]

\* String.prototype.trim: the text without the spaces at its two ends.
RECURSIVE trimStart(_)
trimStart(text) ==
    IF Len(text) > 0 /\ SubSeq(text, 1, 1) = " "
        THEN trimStart(SubSeq(text, 2, Len(text)))
        ELSE text

RECURSIVE trimEnd(_)
trimEnd(text) ==
    IF Len(text) > 0 /\ SubSeq(text, Len(text), Len(text)) = " "
        THEN trimEnd(SubSeq(text, 1, Len(text) - 1))
        ELSE text

trim(text) == trimEnd(trimStart(text))

\* A text of n copies of the character c.
RECURSIVE Repeat(_, _)
Repeat(c, n) ==
    IF n = 0 THEN ""
    ELSE LET half == Repeat(c, n \div 2)
         IN  IF n % 2 = 0 THEN half \o half ELSE half \o half \o c

\* The values of the datetime-local field, and the time each stands for.
StartTimeTexts == {"1970-01-01T00:01"}

toISOString(text) == CASE text = "1970-01-01T00:01" -> 1

\* The limits of tipSchema.
MaxMatchName == 200

MaxSport == 50

MaxBetType == 200

MaxAnalysis == 2000

\* z.number().min(1.01), in thousandths.
MinOdds == 1010

\* What may be entered in the fields of the create form, each of which
\* starts empty.
MatchNameTexts == {"  ", " PSG vs OM ", Repeat("m", MaxMatchName + 1)}

SportTexts == {"Football"}

BetTypeTexts == {"Home win"}

AnalysisTexts == {Repeat("a", MaxAnalysis + 1)}

\* z.string().trim().min(1, required).max(limit): the issues of one field.
stringIssues(text, required, limit) ==
    IF Len(trim(text)) < 1 THEN <<required>>
    ELSE IF Len(trim(text)) > limit
        THEN <<"String must contain at most " \o ToString(limit)
                   \o " character(s)">>
    ELSE <<>>

\* An odds check that lets a text that is not a number through.
oddsIssues_nan_passes(text) ==
    IF ~parseFloat(text).nan /\ parseFloat(text).milli < MinOdds
        THEN <<"Odds must be greater than 1">>
        ELSE <<>>

\* z.number().min(1.01, ...) of parseFloat(odds).
oddsIssues(text) ==
    IF parseFloat(text).nan THEN <<"Expected number, received nan">>
    ELSE IF parseFloat(text).milli < MinOdds
        THEN <<"Odds must be greater than 1">>
    ELSE <<>>

\* z.string().max(2000).optional() of analysis || undefined.
analysisIssues(text) ==
    IF text # "" /\ Len(text) > MaxAnalysis
        THEN <<"String must contain at most " \o ToString(MaxAnalysis)
                   \o " character(s)">>
        ELSE <<>>

\* z.string().min(1, ...) of match_start_time.
startTimeIssues(text) ==
    IF Len(text) < 1 THEN <<"Match start time is required">> ELSE <<>>

\* tipSchema.safeParse(...).error.errors, in the order of the schema's keys;
\* the parse succeeds when there is none.
tipSchema(form) ==
    stringIssues(form.matchName, "Match name is required", MaxMatchName)
        \o stringIssues(form.sport, "Sport is required", MaxSport)
        \o stringIssues(form.betType, "Bet type is required", MaxBetType)
        \o oddsIssues(form.odds)
        \o analysisIssues(form.analysis)
        \o startTimeIssues(form.matchStartTime)

\* The row handleCreateTip inserts; the id, the status and updated_at are
\* the column defaults.
createdTip(d, form, id) ==
    [id |-> id, created_by |-> SessionUser(d),
     match_name |-> trim(form.matchName), sport |-> trim(form.sport),
     bet_type |-> trim(form.betType),
     odds |-> numeric_10_2(parseFloat(form.odds).milli),
     status |-> "pending",
     analysis |-> IF trim(form.analysis) = "" THEN Null
                  ELSE trim(form.analysis),
     match_start_time |-> toISOString(form.matchStartTime),
     updated_at |-> now]

\* onChange of one field of the create form; the fields are not edited
\* while a request of the form is awaited.
setFormField(d, field, text) ==
    /\ session[d]
    /\ isModerator(d)
    /\ ~submitting[d]
    /\ createForm[d][field] # text
    /\ createForm' = [createForm EXCEPT ![d][field] = text]
    /\ UNCHANGED <<store, resp, toast, feed, dash, board, submitting, stake,
                   stakeOpen, auth, chat,
                   wire>>

\* handleCreateTip up to its await: a form that fails tipSchema is answered
\* with the first issue's message and nothing else happens; else the
\* submitting flag is set and the insert is sent.  The dashboard is
\* rendered for a signed-in moderator, and the submit button is disabled
\* while submitting.  A browser checks the min and step of the odds field
\* before it calls onSubmit; the handler does not rely on that and is
\* modelled for every content of the fields.
handleCreateTip(d) ==
    /\ session[d]
    /\ isModerator(d)
    /\ ~submitting[d]
    /\ IF tipSchema(createForm[d]) # <<>>
         THEN /\ toast' = Toast(d, Head(tipSchema(createForm[d])))
              /\ UNCHANGED submitting
         ELSE /\ submitting' = [submitting EXCEPT ![d] = TRUE]
              /\ UNCHANGED toast
    /\ UNCHANGED <<store, resp, feed, dash, board, createForm, stake,
                   stakeOpen, auth, chat,
                   wire>>

\* handleCreateTip from its await on: the insert is executed and answered;
\* the flag is cleared, and on success the form is emptied and fetchTips
\* called.
handleCreateTipAwait(d) ==
    /\ submitting[d]
    /\ TipIds \ TipIdsIn(tips) # {}
    /\ LET id == CHOOSE x \in TipIds \ TipIdsIn(tips) : TRUE
           r == tips_insert(SessionUser(d), createdTip(d, createForm[d], id))
       IN  /\ tips' = r.tips
           /\ resp' = Response("tips.insert", SessionUser(d), r.error, r.rows)
           /\ postgres_changes(r.rows > 0)
           /\ submitting' = [submitting EXCEPT ![d] = FALSE]
           /\ IF r.error # NoError
                THEN /\ toast' = Toast(d, "Failed to create tip")
                     /\ UNCHANGED <<createForm, dashTipsStale>>
                ELSE /\ toast' = Toast(d, "Tip created!")
                     /\ createForm' = [createForm EXCEPT ![d] = EmptyForm]
                     /\ dashTipsStale' = [dashTipsStale EXCEPT ![d] = TRUE]
    /\ UNCHANGED <<now, user_roles, user_tracking, tip_reactions, feedTips,
                   trackedTips, trackedStale, reactions, reactionsStale,
                   dashTips, dashTracking, dashTrackingStale, board, stake,
                   stakeOpen, auth, chat,
                   wire>>

\* The Won and Lost buttons of the manage tab are rendered for the tips the
\* session's fetched list shows as pending.
SettleButtons(d, id) ==
    \E row \in dashTips[d] : row.id = id /\ row.status = "pending"

\* The error supabase-js returns when the request does not reach the
\* backend.
FetchMessage == "TypeError: Failed to fetch"

\* updateTipStatus, r being what the update does and answers.
updateTipStatusAnswered(d, tipId, status, r) ==
    /\ SettleButtons(d, tipId)
    /\ status \in {"won", "lost"}
    /\ tips' = r.tips
    /\ resp' = Response("tips.update", SessionUser(d), r.error, r.rows)
    /\ postgres_changes(r.rows > 0)
    /\ IF r.error # NoError
         THEN /\ toast' = Toast(d, r.error)
              /\ UNCHANGED dashTipsStale
         ELSE /\ toast' = Toast(d, "Tip marked as " \o status)
              /\ dashTipsStale' = [dashTipsStale EXCEPT ![d] = TRUE]
    /\ UNCHANGED <<now, user_roles, user_tracking, tip_reactions, feedTips,
                   trackedTips, trackedStale, reactions, reactionsStale,
                   dashTips, dashTracking, dashTrackingStale, board, forms,
                   auth, chat,
                   wire>>

\* A click on Won or Lost whose request reaches the backend.
updateTipStatus(d, tipId, status) ==
    updateTipStatusAnswered(d, tipId, status,
        tips_update(SessionUser(d), tipId, {<<"status", status>>}))

\* A click on Won or Lost whose request does not reach the backend.
updateTipStatusOffline(d, tipId, status) ==
    updateTipStatusAnswered(d, tipId, status,
        [tips |-> tips, error |-> FetchMessage, rows |-> 0])

(***************************************************************************)
(* Tips feed (Index) and tip card (TipCard.tsx)                            *)
(***************************************************************************)
\* Index.fetchTips: called on mount and by the realtime callback.
FeedFetchTips(s) ==
    /\ feedTipsStale[s]
    /\ feedTips' = [feedTips EXCEPT ![s] = tips_select(SessionUser(s))]
    /\ feedTipsStale' = [feedTipsStale EXCEPT ![s] = FALSE]
    /\ UNCHANGED <<store, resp, toast, trackedTips, trackedStale, reactions,
                   reactionsStale, dash, board, forms, auth, chat,
                   wire>>

\* Index.fetchTips up to its await: the select is sent and answered from
\* the store as it is; the answer waits for the rest of fetchTips.
fetchTipsSend(s) ==
    /\ feedTipsStale[s]
    /\ tipsResponses' =
           [tipsResponses EXCEPT ![s] = @ \cup {tips_select(SessionUser(s))}]
    /\ feedTipsStale' = [feedTipsStale EXCEPT ![s] = FALSE]
    /\ UNCHANGED <<store, resp, toast, feedTips, trackedTips, trackedStale,
                   reactions, reactionsStale, dash, board, forms, auth, chat,
                   reactionsViewer>>

\* Index.fetchTips from its await on, for one of the answers on their way:
\* if (data) setTips(data).
fetchTipsThen(s) ==
    /\ \E data \in tipsResponses[s] :
           /\ tipsResponses' = [tipsResponses EXCEPT ![s] = @ \ {data}]
           /\ feedTips' = [feedTips EXCEPT ![s] = data]
    /\ UNCHANGED <<store, resp, toast, feedTipsStale, trackedTips,
                   trackedStale, reactions, reactionsStale, dash, board,
                   forms, auth, chat, reactionsViewer>>

\* Index.fetchTracking: called by the effect on [user] and as onTrack; it
\* returns at once without a user, leaving the tracked set as it is.
FeedFetchTracking(s) ==
    /\ trackedStale[s]
    /\ trackedTips' =
           IF ~session[s]
               THEN trackedTips
               ELSE [trackedTips EXCEPT ![s] =
                        {r.tip_id : r \in {x \in tracking_select(SessionUser(s)) :
                                               x.user_id = SessionUser(s)}}]
    /\ trackedStale' = [trackedStale EXCEPT ![s] = FALSE]
    /\ UNCHANGED <<store, resp, toast, feedTips, feedTipsStale, reactions,
                   reactionsStale, dash, board, forms, auth, chat,
                   wire>>

\* The map fetchReactions builds from the fetched rows: for every tip with
\* a row, the like and fire counts and whether the viewer is among them.
ReactionSummary(rows, uid) ==
    [t \in {r.tip_id : r \in rows} |->
        [like |-> Cardinality({r \in rows :
                      r.tip_id = t /\ r.reaction_type = "like"}),
         fire |-> Cardinality({r \in rows :
                      r.tip_id = t /\ r.reaction_type = "fire"}),
         userLiked |-> \E r \in rows : /\ r.tip_id = t
                                        /\ r.reaction_type = "like"
                                        /\ r.user_id = uid,
         userFired |-> \E r \in rows : /\ r.tip_id = t
                                        /\ r.reaction_type = "fire"
                                        /\ r.user_id = uid]]

\* Index.fetchReactions: called by the mount effect, whose dependency list
\* is empty, and at the end of handleReact. user?.id is the user of the
\* render the running closure belongs to (reactionsViewer), which for the
\* mount effect is the user of the first render.
FeedFetchReactions(s) ==
    /\ reactionsStale[s]
    /\ reactions' =
           [reactions EXCEPT ![s] =
               ReactionSummary(reaction_select(tip_reactions, reactionsViewer[s]),
                               reactionsViewer[s])]
    /\ reactionsStale' = [reactionsStale EXCEPT ![s] = FALSE]
    /\ UNCHANGED <<store, resp, toast, feedTips, feedTipsStale, trackedTips,
                   trackedStale, dash, board, forms, auth, chat,
                   wire>>

\* reactions[tipId]?.[key] with key userLiked for "like", else userFired.
reactionFlag(view, tipId, type) ==
    /\ tipId \in DOMAIN view
    /\ IF type = "like" THEN view[tipId].userLiked ELSE view[tipId].userFired

\* The request handleReact sends for a user whose fetched map is view, and
\* the answer to it: a delete when the flag is set, an insert otherwise.
reactRequest(tbl, view, uid, tipId, type) ==
    IF reactionFlag(view, tipId, type)
        THEN reaction_delete(tbl, uid, uid, tipId, type)
        ELSE reaction_insert(tbl, uid, uid, tipId, type)

\* Index.handleReact: returns at once without a user; the answer's error is
\* not looked at, and fetchReactions is called whatever the answer.
handleReact(s, tipId, type) ==
    /\ session[s]
    /\ Authenticated(SessionUser(s))
    /\ LET r == reactRequest(tip_reactions, reactions[s], SessionUser(s),
                             tipId, type)
       IN  /\ tip_reactions' = r.tip_reactions
           /\ resp' = Response(IF reactionFlag(reactions[s], tipId, type)
                                   THEN "reactions.delete"
                                   ELSE "reactions.insert",
                               SessionUser(s), r.error, r.rows)
    /\ reactionsStale' = [reactionsStale EXCEPT ![s] = TRUE]
    /\ reactionsViewer' = [reactionsViewer EXCEPT ![s] = SessionUser(s)]
    /\ UNCHANGED <<now, user_roles, tips, user_tracking, toast, feedTips,
                   feedTipsStale, trackedTips, trackedStale, reactions, dash,
                   board, forms, auth, chat, tipsResponses>>

\* A reaction request sent straight to the storage boundary.
ApiReactionInsert(actor, user_id, tip_id, type) ==
    /\ LET r == reaction_insert(tip_reactions, actor, user_id, tip_id, type)
       IN  /\ tip_reactions' = r.tip_reactions
           /\ resp' = Response("reactions.insert", actor, r.error, r.rows)
    /\ UNCHANGED <<now, user_roles, tips, user_tracking, toast, feed, dash,
                   board, forms, auth, chat,
                   wire>>

ApiReactionDelete(actor, user_id, tip_id, type) ==
    /\ LET r == reaction_delete(tip_reactions, actor, user_id, tip_id, type)
       IN  /\ tip_reactions' = r.tip_reactions
           /\ resp' = Response("reactions.delete", actor, r.error, r.rows)
    /\ UNCHANGED <<now, user_roles, tips, user_tracking, toast, feed, dash,
                   board, forms, auth, chat,
                   wire>>

\* The stake dialog is rendered when a user is signed in, the session's
\* fetched tip is pending and the tip is not in its fetched tracked set.
StakeDialog(s, tipId) ==
    /\ session[s]
    /\ Authenticated(SessionUser(s))
    /\ \E row \in feedTips[s] : row.id = tipId /\ row.status = "pending"
    /\ tipId \notin trackedTips[s]

\* !stakeNum || stakeNum <= 0
InvalidStake(stakeNum) == stakeNum.nan \/ stakeNum.milli = 0 \/ stakeNum.milli <= 0

\* error.message.includes("duplicate")
IncludesDuplicate(message) == message = DuplicateMessage

StakeErrorToast(message) ==
    IF IncludesDuplicate(message)
        THEN "You already tracked this tip"
        ELSE "Failed to track tip"

\* DialogTrigger: the "I played this!" button of a rendered dialog opens it.
openStakeDialog(s, tipId) ==
    /\ StakeDialog(s, tipId)
    /\ ~stakeOpen[s][tipId]
    /\ stakeOpen' = [stakeOpen EXCEPT ![s][tipId] = TRUE]
    /\ UNCHANGED <<store, resp, toast, feed, dash, board, createForm,
                   submitting, stake, auth, chat,
                   wire>>

\* onChange of the stake field of the open dialog: setStake(e.target.value).
setStake(s, tipId, text) ==
    /\ StakeDialog(s, tipId)
    /\ stakeOpen[s][tipId]
    /\ stake[s][tipId] # text
    /\ stake' = [stake EXCEPT ![s][tipId] = text]
    /\ UNCHANGED <<store, resp, toast, feed, dash, board, createForm,
                   submitting, stakeOpen, auth, chat,
                   wire>>

\* The Confirm Stake button of the open dialog, the field holding text.
\* setSubmitting(true) and setSubmitting(false) enclose the request, so the
\* card's submitting flag is false before and after the handler.
handleStake(s, tipId, text) ==
    /\ StakeDialog(s, tipId)
    /\ stakeOpen[s][tipId]
    /\ stake[s][tipId] = text
    /\ LET stakeNum == parseFloat(text)
       IN  IF InvalidStake(stakeNum)
             THEN /\ toast' = Toast(s, "Enter a valid stake amount")
                  /\ UNCHANGED <<user_tracking, resp, trackedStale, stake,
                                 stakeOpen>>
             ELSE LET r == tracking_insert(SessionUser(s), SessionUser(s),
                                           tipId, stakeNum.milli)
                  IN  /\ user_tracking' = r.user_tracking
                      /\ resp' = Response("tracking.insert", SessionUser(s),
                                          r.error, r.rows)
                      /\ IF r.error # NoError
                           THEN /\ toast' = Toast(s, StakeErrorToast(r.error))
                                /\ UNCHANGED <<trackedStale, stake, stakeOpen>>
                           ELSE /\ toast' = Toast(s, "Tip tracked!")
                                /\ stakeOpen' =
                                       [stakeOpen EXCEPT ![s][tipId] = FALSE]
                                /\ stake' = [stake EXCEPT ![s][tipId] = ""]
                                /\ trackedStale' =
                                       [trackedStale EXCEPT ![s] = TRUE]
    /\ UNCHANGED <<now, user_roles, tips, tip_reactions, feedTips,
                   feedTipsStale, trackedTips, reactions, reactionsStale, dash,
                   board, createForm, submitting, auth, chat,
                   wire>>

(***************************************************************************)
(* TipComments: the comments panel of a tip card                           *)
(***************************************************************************)
\* maxLength={500} of the comment field: what can be typed is no longer.
MaxComment == 500

\* What a user may type in the comment field.
CommentTexts == {"  ", " nice ", Repeat("c", MaxComment)}

\* A comment request sent straight to the storage boundary.
ApiCommentInsert(actor, user_id, tip_id, content) ==
    /\ \E c \in CommentIds : \A r \in tip_comments : r.id # c
    /\ LET r == comment_insert(actor, user_id, tip_id, content)
       IN  /\ tip_comments' = r.tip_comments
           /\ resp' = Response("comments.insert", actor, r.error, r.rows)
    /\ UNCHANGED <<store, toast, feed, dash, board, forms, auth, comments,
                   newComment, loading, wire>>

ApiCommentDelete(actor, id) ==
    /\ LET r == comment_delete(actor, id)
       IN  /\ tip_comments' = r.tip_comments
           /\ resp' = Response("comments.delete", actor, r.error, r.rows)
    /\ UNCHANGED <<store, toast, feed, dash, board, forms, auth, comments,
                   newComment, loading, wire>>

\* fetchComments, called when the panel of the tip is mounted.
fetchComments(s, tipId) ==
    /\ comments' = [comments EXCEPT
                       ![s][tipId] = comment_select(SessionUser(s), tipId)]
    /\ UNCHANGED <<store, resp, toast, feed, dash, board, forms, auth,
                   tip_comments, newComment, loading, wire>>

\* onChange of the comment field, rendered for a signed-in user.
setNewComment(s, tipId, text) ==
    /\ session[s]
    /\ ~loading[s][tipId]
    /\ newComment[s][tipId] # text
    /\ newComment' = [newComment EXCEPT ![s][tipId] = text]
    /\ UNCHANGED <<store, resp, toast, feed, dash, board, forms, auth,
                   tip_comments, comments, loading, wire>>

\* handleSubmit up to its await: a blank comment returns at once, else the
\* loading flag is set and the insert is sent.  The send button is disabled
\* while loading.
handleSubmit(s, tipId) ==
    /\ session[s]
    /\ ~loading[s][tipId]
    /\ loading' = [loading EXCEPT ![s][tipId] = trim(newComment[s][tipId]) # ""]
    /\ UNCHANGED <<store, resp, toast, feed, dash, board, forms, auth,
                   tip_comments, comments, newComment, wire>>

\* handleSubmit from its await on: the insert is executed and answered and
\* the flag cleared; on an error a toast is shown, else the field is
\* emptied and the comments fetched again.
handleSubmitAwait(s, tipId) ==
    /\ loading[s][tipId]
    /\ \E c \in CommentIds : \A r \in tip_comments : r.id # c
    /\ LET r == comment_insert(SessionUser(s), SessionUser(s), tipId,
                               trim(newComment[s][tipId]))
       IN  /\ tip_comments' = r.tip_comments
           /\ resp' = Response("comments.insert", SessionUser(s), r.error,
                               r.rows)
           /\ loading' = [loading EXCEPT ![s][tipId] = FALSE]
           /\ IF r.error # NoError
                THEN /\ toast' = Toast(s, "Failed to post comment")
                     /\ UNCHANGED <<newComment, comments>>
                ELSE /\ newComment' = [newComment EXCEPT ![s][tipId] = ""]
                     /\ comments' =
                            [comments EXCEPT
                                ![s][tipId] = {c \in r.tip_comments :
                                                  c.tip_id = tipId}]
                     /\ UNCHANGED toast
    /\ UNCHANGED <<store, feed, dash, board, forms, auth, wire>>

(***************************************************************************)
(* Accounting: the figures the views derive from the fetched rows.         *)
(* Number(x) of a DECIMAL(10,2) value is the value itself; stakes are in   *)
(* hundredths and profits in ten-thousandths.                              *)
(***************************************************************************)
\* The sum of the second components of a set of <<key, number>> pairs.
RECURSIVE SumValues(_)
SumValues(pairs) ==
    IF pairs = {} THEN 0
    ELSE LET p == CHOOSE q \in pairs : TRUE
         IN  p[2] + SumValues(pairs \ {p})

\* An amount of hundredths, in ten-thousandths.
InProfitUnits(hundredths) == hundredths * 100

\* totalProfit / totalStaked * 100 as an exact fraction of percents.
Percent(profit, staked) == [num |-> profit, den |-> staked]

ZeroPercent == [num |-> 0, den |-> 1]

\* The embedded tips(...) object of a joined user_tracking row; a row whose
\* tip cannot be resolved carries status Null.
JoinedTip(actor, tip_id) ==
    IF tip_id \in TipIdsIn(tips_select(actor))
        THEN LET tip == TipById(tips_select(actor), tip_id)
             IN  [odds |-> tip.odds, status |-> tip.status]
        ELSE [odds |-> 0, status |-> Null]

\* UserHistory's fetch: from("user_tracking").select("*, tips(...)")
\*   .eq("user_id", userId), sent with the viewer's session.
UserHistoryEntries(actor, userId) ==
    {[id |-> r.id, stake |-> r.stake, tips |-> JoinedTip(actor, r.tip_id)] :
        r \in {x \in tracking_select(actor) : x.user_id = userId}}

\* The profit as it would be had the won branch used the odds instead of
\* the odds minus one: C1 must notice.
UH_totalProfit_full_odds(histEntries) ==
    SumValues({<<e.id, e.stake * e.tips.odds>> :
                  e \in {x \in histEntries : x.tips.status = "won"}})
      - SumValues({<<e.id, InProfitUnits(e.stake)>> :
                      e \in {x \in histEntries : x.tips.status = "lost"}})

\* The total as it would be did it leave out the stakes on tips that are
\* not settled: C13 must notice.
UH_totalStaked_settled_only(histEntries) ==
    SumValues({<<e.id, e.stake>> :
                  e \in {x \in histEntries : x.tips.status \in {"won", "lost"}}})

UH_totalStaked(histEntries) ==
    SumValues({<<e.id, e.stake>> : e \in histEntries})

UH_wonEntries(histEntries) == {e \in histEntries : e.tips.status = "won"}

UH_lostEntries(histEntries) == {e \in histEntries : e.tips.status = "lost"}

UH_totalProfit(histEntries) ==
    SumValues({<<e.id, e.stake * (e.tips.odds - 100)>> :
                  e \in UH_wonEntries(histEntries)})
      - SumValues({<<e.id, InProfitUnits(e.stake)>> :
                      e \in UH_lostEntries(histEntries)})

\* The ROI as it would be without the test of totalStaked: C12 must notice.
UH_roi_unguarded(histEntries) ==
    Percent(UH_totalProfit(histEntries), UH_totalStaked(histEntries))

UH_roi(histEntries) ==
    IF UH_totalStaked(histEntries) > 0
        THEN Percent(UH_totalProfit(histEntries), UH_totalStaked(histEntries))
        ELSE ZeroPercent

\* The win rate as it would be did it divide by the number of all entries:
\* C15 must notice.
UH_winRate_of_all_entries(histEntries) ==
    IF Cardinality(histEntries) > 0
        THEN Percent(Cardinality(UH_wonEntries(histEntries)) * 100,
                     Cardinality(histEntries))
        ELSE ZeroPercent

\* The Win Rate card: wonEntries.length / (wonEntries.length +
\* lostEntries.length) * 100 when the sum is positive, else 0.
UH_winRate(histEntries) ==
    IF Cardinality(UH_wonEntries(histEntries))
            + Cardinality(UH_lostEntries(histEntries)) > 0
        THEN Percent(Cardinality(UH_wonEntries(histEntries)) * 100,
                     Cardinality(UH_wonEntries(histEntries))
                         + Cardinality(UH_lostEntries(histEntries)))
        ELSE ZeroPercent

\* x.toFixed(0) of a fraction that is not negative: the nearest integer,
\* the larger one when two are equally near.
toFixed0(x) == (2 * x.num + x.den) \div (2 * x.den)

\* The number the Win Rate card prints before the percent sign.
UH_winRateShown(histEntries) ==
    IF Cardinality(UH_wonEntries(histEntries))
            + Cardinality(UH_lostEntries(histEntries)) > 0
        THEN toFixed0(UH_winRate(histEntries))
        ELSE 0

\* The per-row P/L cell of the history table.
UH_pl(e) ==
    IF e.tips.status = "won" THEN e.stake * (e.tips.odds - 100)
    ELSE IF e.tips.status = "lost" THEN -InProfitUnits(e.stake)
    ELSE 0

\* Dashboard stats over the dashboard's fetched tips and tracking rows.
Dash_totalStakes(tracking) ==
    SumValues({<<t.id, t.stake>> : t \in tracking})

Dash_wonTipIds(tipList) == {t.id : t \in {x \in tipList : x.status = "won"}}

Dash_lostTipIds(tipList) == {t.id : t \in {x \in tipList : x.status = "lost"}}

Dash_contribution(tipList, t) ==
    IF t.tip_id \notin TipIdsIn(tipList) THEN 0
    ELSE IF t.tip_id \in Dash_wonTipIds(tipList)
        THEN t.stake * (TipById(tipList, t.tip_id).odds - 100)
    ELSE IF t.tip_id \in Dash_lostTipIds(tipList)
        THEN -InProfitUnits(t.stake)
    ELSE 0

Dash_totalProfit(tipList, tracking) ==
    SumValues({<<t.id, Dash_contribution(tipList, t)>> : t \in tracking})

Dash_roi(tipList, tracking) ==
    IF Dash_totalStakes(tracking) > 0
        THEN Percent(Dash_totalProfit(tipList, tracking),
                     Dash_totalStakes(tracking))
        ELSE ZeroPercent

(***************************************************************************)
(* Leaderboard (second component of Dashboard.tsx)                         *)
(***************************************************************************)
\* .slice(0, 10)
LeaderboardSize == 10

\* The row of the leaderboard's fetch for a stored stake.
LB_row(actor, r) ==
    [user_id |-> r.user_id, stake |-> r.stake, tip_id |-> r.tip_id,
     tips |-> JoinedTip(actor, r.tip_id)]

\* The callback as it would be did it skip pending stakes only: C10 must
\* notice.
LB_skipped_pending_only(t) ==
    t.tips.status = Null \/ t.tips.status = "pending"

\* The callback of trackingData.forEach: userMap is the Map, kept as the
\* sequence of its values in insertion order.
LB_skipped(t) ==
    t.tips.status = Null \/ t.tips.status = "pending" \/ t.tips.status = "void"

LB_has(userMap, uid) == \E k \in 1..Len(userMap) : userMap[k].user_id = uid

LB_index(userMap, uid) ==
    CHOOSE k \in 1..Len(userMap) : userMap[k].user_id = uid

LB_newEntry(uid) ==
    [user_id |-> uid, total_profit |-> 0, total_staked |-> 0, wins |-> 0,
     total_bets |-> 0]

\* The accumulation as it would be did it count every settled stake as a
\* win: C11 must notice.
LB_update_every_bet_wins(entry, t) ==
    [entry EXCEPT
        !.total_staked = @ + t.stake,
        !.total_bets = @ + 1,
        !.total_profit =
            IF t.tips.status = "won" THEN @ + t.stake * (t.tips.odds - 100)
            ELSE IF t.tips.status = "lost" THEN @ - InProfitUnits(t.stake)
            ELSE @,
        !.wins = @ + 1]

LB_update(entry, t) ==
    [entry EXCEPT
        !.total_staked = @ + t.stake,
        !.total_bets = @ + 1,
        !.total_profit =
            IF t.tips.status = "won" THEN @ + t.stake * (t.tips.odds - 100)
            ELSE IF t.tips.status = "lost" THEN @ - InProfitUnits(t.stake)
            ELSE @,
        !.wins = IF t.tips.status = "won" THEN @ + 1 ELSE @]

LB_visit(userMap, t) ==
    IF LB_skipped(t) THEN userMap
    ELSE LET withUser == IF LB_has(userMap, t.user_id) THEN userMap
                         ELSE Append(userMap, LB_newEntry(t.user_id))
             k == LB_index(withUser, t.user_id)
         IN  [withUser EXCEPT ![k] = LB_update(withUser[k], t)]

RECURSIVE LB_group(_, _)
LB_group(userMap, rows) ==
    IF rows = <<>> THEN userMap
    ELSE LB_group(LB_visit(userMap, Head(rows)), Tail(rows))

\* .sort((a, b) => b.total_profit - a.total_profit): the sort is stable, so
\* entries of equal profit keep the order the Map gave them.
RECURSIVE LB_insert(_, _)
LB_insert(sorted, e) ==
    IF sorted = <<>> THEN <<e>>
    ELSE IF Head(sorted).total_profit >= e.total_profit
        THEN <<Head(sorted)>> \o LB_insert(Tail(sorted), e)
    ELSE <<e>> \o sorted

RECURSIVE LB_sort(_)
LB_sort(list) ==
    IF list = <<>> THEN <<>>
    ELSE LB_insert(LB_sort(SubSeq(list, 1, Len(list) - 1)), list[Len(list)])

LB_slice(list) ==
    SubSeq(list, 1, IF Len(list) < LeaderboardSize THEN Len(list)
                    ELSE LeaderboardSize)

\* The list fetchLeaderboard hands to setEntries.
LB_rank(rows) == LB_slice(LB_sort(LB_group(<<>>, rows)))

\* The ROI each card of the leaderboard shows.
LB_roi(entry) ==
    IF entry.total_staked > 0
        THEN Percent(entry.total_profit, entry.total_staked)
        ELSE ZeroPercent

\* fetchLeaderboard: runs when the Leaderboard component mounts.  rows is
\* the answer to from("user_tracking").select("user_id, stake, tip_id,
\* tips(odds, status), ..."), sent with the viewer's session: the visible
\* rows, each once, in the order the backend chose (there is no ORDER BY).
fetchLeaderboard(viewer, rows) ==
    /\ Len(rows) = Cardinality(tracking_select(viewer))
    /\ {rows[k] : k \in 1..Len(rows)}
           = {LB_row(viewer, r) : r \in tracking_select(viewer)}
    /\ trackingData' = rows
    /\ entries' = LB_rank(rows)
    /\ UNCHANGED <<store, resp, toast, feed, dash, forms, auth, chat,
                   wire>>

(***************************************************************************)
(* Specification SpecTips: the tips table under requests of every actor    *)
(***************************************************************************)
\* The tip this specification follows, and the actors who send requests:
\* a plain user, a moderator, an admin and a client without a session.
FocusTips == {"t1"}

TipActors == {"alice", "mod", "root", Anon}

ColumnValues(c) ==
    CASE c = "created_by" -> {"mod", "root"}
      [] c = "match_name" -> {"PSG vs OM", "Lyon vs Nice"}
      [] c = "sport" -> {"Football", "Tennis"}
      [] c = "bet_type" -> {"Over 1.5 goals", "Home win"}
      [] c = "odds" -> {150, 200}
      [] c = "status" -> tip_status
      [] c = "analysis" -> {Null, "value bet"}
      [] c = "match_start_time" -> 1..(MaxTime + 1)

\* The rows a request may insert.
TipRows(ids, statuses) ==
    [id : ids, created_by : ColumnValues("created_by"),
     match_name : ColumnValues("match_name"), sport : ColumnValues("sport"),
     bet_type : ColumnValues("bet_type"), odds : ColumnValues("odds"),
     status : statuses, analysis : ColumnValues("analysis"),
     match_start_time : ColumnValues("match_start_time"),
     updated_at : 0..MaxTime]

\* The SET lists a request may send: one column, or status with odds.
Patches ==
    {{<<c, v>>} : <<c, v>> \in
        UNION {{<<c, v>> : v \in ColumnValues(c)} : c \in TipColumns}}
      \cup {{<<"status", v>>, <<"odds", w>>} :
                <<v, w>> \in tip_status \X ColumnValues("odds")}

\* The clients as mounted, the create forms and the users known to the
\* feeds at their first render being given.
InitClientsAs(filled, viewers) ==
    /\ resp = Response("none", Anon, NoError, 0)
    /\ toast = NoToast
    /\ feedTips = [s \in FeedSessions |-> {}]
    /\ feedTipsStale = [s \in FeedSessions |-> TRUE]
    /\ trackedTips = [s \in FeedSessions |-> {}]
    /\ trackedStale = [s \in FeedSessions |-> TRUE]
    /\ dashTips = [d \in DashSessions |-> {}]
    /\ dashTipsStale = [d \in DashSessions |-> TRUE]
    /\ trackingData = <<>>
    /\ entries = <<>>
    /\ reactions = [s \in FeedSessions |-> ReactionSummary({}, SessionUser(s))]
    /\ reactionsStale = [s \in FeedSessions |-> TRUE]
    /\ dashTracking = [d \in DashSessions |-> {}]
    /\ dashTrackingStale = [d \in DashSessions |-> TRUE]
    /\ createForm = filled
    /\ submitting = [d \in DashSessions |-> FALSE]
    /\ stake = [s \in FeedSessions |-> [id \in TipIds |-> ""]]
    /\ stakeOpen = [s \in FeedSessions |-> [id \in TipIds |-> FALSE]]
    /\ comments = [s \in FeedSessions |-> [id \in TipIds |-> {}]]
    /\ newComment = [s \in FeedSessions |-> [id \in TipIds |-> ""]]
    /\ loading = [s \in FeedSessions |-> [id \in TipIds |-> FALSE]]
    /\ tipsResponses = [s \in FeedSessions |-> {}]
    /\ reactionsViewer = viewers

\* The clients with empty forms, mounted with the user signed in.
InitClients ==
    InitClientsAs([d \in DashSessions |-> EmptyForm],
                  [s \in FeedSessions |-> SessionUser(s)])

\* Every session has signed in and its fetchRole has been answered.
InitSignedIn ==
    /\ role = [s \in Sessions |-> highestRole(rolesOf(InitialRoles, SessionUser(s)))]
    /\ roleData = [s \in Sessions |-> {}]
    /\ session = [s \in Sessions |-> TRUE]
    /\ auth_users = Users

\* No session has signed in: useState("user") and a null session.
InitSignedOut ==
    /\ role = [s \in Sessions |-> "user"]
    /\ roleData = [s \in Sessions |-> {}]
    /\ session = [s \in Sessions |-> FALSE]
    /\ auth_users = Users

InitTips ==
    /\ now = 0
    /\ user_roles = InitialRoles
    /\ tips = {}
    /\ user_tracking = {}
    /\ tip_reactions = {}
    /\ tip_comments = {}
    /\ InitClients
    /\ InitSignedIn

NextTips ==
    \/ Tick
    \/ \E actor \in TipActors, row \in TipRows(FocusTips, {"pending"}) :
           ApiTipsInsert(actor, row)
    \/ \E actor \in TipActors, id \in FocusTips, patch \in Patches :
           ApiTipsUpdate(actor, id, patch)
    \/ \E actor \in TipActors, id \in FocusTips : ApiTipsDelete(actor, id)
    \/ \E actor \in TipActors : ApiTipsSelect(actor)

SpecTips == InitTips /\ [][NextTips]_vars

(***************************************************************************)
(* Specification Spec: the application at work on a published tip.  Two    *)
(* feed sessions of alice and the dashboard of mod share one store; alice  *)
(* may also delete her own stake at the storage boundary.                  *)
(***************************************************************************)
Tip1 ==
    [id |-> "t1", created_by |-> "mod", match_name |-> "PSG vs OM",
     sport |-> "Football", bet_type |-> "Over 1.5 goals", odds |-> 200,
     status |-> "pending", analysis |-> Null, match_start_time |-> 1,
     updated_at |-> 0]

Tip2 ==
    [id |-> "t2", created_by |-> "root", match_name |-> "Lyon vs Nice",
     sport |-> "Football", bet_type |-> "Home win", odds |-> 150,
     status |-> "pending", analysis |-> "value bet", match_start_time |-> 1,
     updated_at |-> 0]

\* What alice types in this specification: nothing, an amount that rounds
\* to 0.00 and an amount that is stored as typed.
FeedStakeTexts == {"", "0.004", "10"}

Init ==
    /\ now = 0
    /\ user_roles = InitialRoles
    /\ tips = {Tip1}
    /\ user_tracking = {}
    /\ tip_reactions = {}
    /\ tip_comments = {}
    /\ InitClients
    /\ InitSignedIn

Next ==
    \/ DashFetchTips("d1")
    \/ \E id \in TipIds, status \in {"won", "lost"} :
           updateTipStatus("d1", id, status)
    \/ \E s \in FeedSessions : FeedFetchTips(s)
    \/ \E s \in FeedSessions : FeedFetchTracking(s)
    \/ \E s \in FeedSessions, id \in TipIds : openStakeDialog(s, id)
    \/ \E s \in FeedSessions, id \in TipIds, text \in FeedStakeTexts :
           setStake(s, id, text)
    \/ \E s \in FeedSessions, id \in TipIds, text \in FeedStakeTexts :
           handleStake(s, id, text)
    \/ \E id \in TipIds : ApiTrackingDelete("alice", "alice", id)

Spec == Init /\ [][Next]_vars

(***************************************************************************)
(* Specification SpecSettle: the dashboards of mod and root settle two     *)
(* published tips.                                                         *)
(***************************************************************************)
InitSettle ==
    /\ now = 0
    /\ user_roles = InitialRoles
    /\ tips = {Tip1, Tip2}
    /\ user_tracking = {}
    /\ tip_reactions = {}
    /\ tip_comments = {}
    /\ InitClients
    /\ InitSignedIn

NextSettle ==
    \/ \E d \in DashSessions : DashFetchTips(d)
    \/ \E d \in DashSessions, id \in TipIds, status \in {"won", "lost"} :
           updateTipStatus(d, id, status)

SpecSettle == InitSettle /\ [][NextSettle]_vars

(***************************************************************************)
(* Specification SpecDash: the dashboard of mod fetches the tips and the   *)
(* stakes while alice and bob stake, mod settles and root deletes tips.    *)
(***************************************************************************)
InitDash ==
    /\ now = 0
    /\ user_roles = InitialRoles
    /\ tips = {Tip1, Tip2}
    /\ user_tracking = {}
    /\ tip_reactions = {}
    /\ tip_comments = {}
    /\ InitClients
    /\ InitSignedIn

NextDash ==
    \/ DashFetchTips("d1")
    \/ DashFetchTracking("d1")
    \/ \E id \in TipIds, status \in {"won", "lost"} :
           updateTipStatus("d1", id, status)
    \/ ApiTrackingInsert("alice", "alice", "t1", 10000)
    \/ ApiTrackingInsert("bob", "bob", "t2", 20000)
    \/ \E id \in TipIds : ApiTipsDelete("root", id)

SpecDash == InitDash /\ [][NextDash]_vars

(***************************************************************************)
(* Specification SpecCreate: mod fills in and submits the create form of   *)
(* the dashboard while alice uses the stake dialog of a published tip; mod *)
(* may also insert a tip at the storage boundary and root deletes tips.    *)
(***************************************************************************)
\* A tip whose odds no form would let through.
LowOddsTip == [Tip2 EXCEPT !.odds = 50]

\* What alice types in this specification: nothing, zero and an amount.
CreateStakeTexts == {"", "0", "10"}

InitCreate ==
    /\ now = 0
    /\ user_roles = InitialRoles
    /\ tips = {Tip1}
    /\ user_tracking = {}
    /\ tip_reactions = {}
    /\ tip_comments = {}
    /\ InitClients
    /\ InitSignedIn

NextCreate ==
    \/ \E text \in MatchNameTexts : setFormField("d1", "matchName", text)
    \/ \E text \in SportTexts : setFormField("d1", "sport", text)
    \/ \E text \in BetTypeTexts : setFormField("d1", "betType", text)
    \/ \E text \in OddsTexts : setFormField("d1", "odds", text)
    \/ \E text \in AnalysisTexts : setFormField("d1", "analysis", text)
    \/ \E text \in StartTimeTexts :
           setFormField("d1", "matchStartTime", text)
    \/ handleCreateTip("d1")
    \/ handleCreateTipAwait("d1")
    \/ ApiTipsInsert("mod", LowOddsTip)
    \/ ApiTipsDelete("root", "t2")
    \/ FeedFetchTips("s1")
    \/ openStakeDialog("s1", "t1")
    \/ \E text \in CreateStakeTexts : setStake("s1", "t1", text)
    \/ \E text \in CreateStakeTexts : handleStake("s1", "t1", text)

SpecCreate == InitCreate /\ [][NextCreate]_vars

(***************************************************************************)
(* Specification SpecAuth: alice and mod sign in and out of a session each *)
(* while root grants roles to mod and takes them away.                     *)
(***************************************************************************)
AuthSessions == {"s1", "d1"}

InitAuth ==
    /\ now = 0
    /\ user_roles = InitialRoles
    /\ tips = {}
    /\ user_tracking = {}
    /\ tip_reactions = {}
    /\ tip_comments = {}
    /\ InitClients
    /\ InitSignedOut

NextAuth ==
    \/ \E s \in AuthSessions : signIn(s)
    \/ \E s \in AuthSessions : onAuthStateChange(s)
    \/ \E s \in AuthSessions, data \in SUBSET app_role : fetchRoleThen(s, data)
    \/ \E s \in AuthSessions : signOut(s)
    \/ \E r \in app_role : ApiRolesInsert("root", "mod", r)
    \/ \E r \in app_role : ApiRolesDelete("root", "mod", r)

SpecAuth == InitAuth /\ [][NextAuth]_vars

(***************************************************************************)
(* Specification SpecComments: alice comments on a published tip through  *)
(* the panel of its card; bob sends comment requests of his own, the       *)
(* authors delete comments, and root deletes the tip and mod restores it.  *)
(***************************************************************************)
\* Contents no comment field would let through.
DirectContents == {"", Repeat("x", MaxComment + 1)}

InitComments ==
    /\ now = 0
    /\ user_roles = InitialRoles
    /\ tips = {Tip1}
    /\ user_tracking = {}
    /\ tip_reactions = {}
    /\ tip_comments = {}
    /\ InitClients
    /\ InitSignedIn

NextComments ==
    \/ fetchComments("s1", "t1")
    \/ \E text \in CommentTexts : setNewComment("s1", "t1", text)
    \/ handleSubmit("s1", "t1")
    \/ handleSubmitAwait("s1", "t1")
    \/ \E content \in DirectContents :
           ApiCommentInsert("bob", "bob", "t1", content)
    \/ \E actor \in {"alice", "bob"}, id \in CommentIds :
           ApiCommentDelete(actor, id)
    \/ ApiTipsDelete("root", "t1")
    \/ ApiTipsInsert("mod", Tip1)

SpecComments == InitComments /\ [][NextComments]_vars

(***************************************************************************)
(* Specification SpecFeed: a mounted feed of alice fetches the tips, the   *)
(* answers arriving in any order, while mod settles, publishes and root    *)
(* deletes tips.                                                           *)
(***************************************************************************)
InitFeed ==
    /\ now = 0
    /\ user_roles = InitialRoles
    /\ tips = {Tip1}
    /\ user_tracking = {}
    /\ tip_reactions = {}
    /\ tip_comments = {}
    /\ InitClients
    /\ InitSignedIn

NextFeed ==
    \/ fetchTipsSend("s1")
    \/ fetchTipsThen("s1")
    \/ \E status \in {"won", "lost"} :
           ApiTipsUpdate("mod", "t1", {<<"status", status>>})
    \/ ApiTipsInsert("mod", Tip2)
    \/ ApiTipsDelete("root", "t2")

SpecFeed == InitFeed /\ [][NextFeed]_vars

(***************************************************************************)
(* Specification SpecFail: writes that the backend refuses.  mod, the      *)
(* create form filled in, creates and settles tips from the dashboard      *)
(* while root may take the moderator role away and the network may drop a  *)
(* status update; alice stakes on and comments a tip that root may delete. *)
(***************************************************************************)
\* A create form that passes tipSchema.
FilledForm ==
    [matchName |-> " PSG vs OM ", sport |-> "Football",
     betType |-> "Home win", odds |-> "1.014", analysis |-> "",
     matchStartTime |-> "1970-01-01T00:01"]

InitFail ==
    /\ now = 0
    /\ user_roles = InitialRoles
    /\ tips = {Tip1}
    /\ user_tracking = {}
    /\ tip_reactions = {}
    /\ tip_comments = {}
    /\ InitClientsAs([d \in DashSessions |-> FilledForm],
                     [s \in FeedSessions |-> SessionUser(s)])
    /\ InitSignedIn

NextFail ==
    \/ DashFetchTips("d1")
    \/ \E status \in {"won", "lost"} : updateTipStatus("d1", "t1", status)
    \/ \E status \in {"won", "lost"} :
           updateTipStatusOffline("d1", "t1", status)
    \/ handleCreateTip("d1")
    \/ handleCreateTipAwait("d1")
    \/ ApiRolesDelete("root", "mod", "moderator")
    \/ ApiTipsDelete("root", "t1")
    \/ FeedFetchTips("s1")
    \/ openStakeDialog("s1", "t1")
    \/ setStake("s1", "t1", "10")
    \/ handleStake("s1", "t1", "10")
    \/ setNewComment("s1", "t1", " nice ")
    \/ handleSubmit("s1", "t1")
    \/ handleSubmitAwait("s1", "t1")

SpecFail == InitFail /\ [][NextFail]_vars

(***************************************************************************)
(* Specification SpecViewer: a feed page is loaded before the auth         *)
(* provider has restored alice's session, so its first render has no user. *)
(* alice's session arrives, she stakes and reacts, signs out and in again, *)
(* and reacts from another device; bob likes the tip as well.              *)
(***************************************************************************)
InitViewer ==
    /\ now = 0
    /\ user_roles = InitialRoles
    /\ tips = {Tip1}
    /\ user_tracking = {}
    /\ tip_reactions = {}
    /\ tip_comments = {}
    /\ InitClientsAs([d \in DashSessions |-> EmptyForm],
                     [s \in FeedSessions |-> Anon])
    /\ InitSignedOut

NextViewer ==
    \/ signIn("s1")
    \/ \E data \in SUBSET app_role : fetchRoleThen("s1", data)
    \/ signOut("s1")
    \/ FeedFetchTips("s1")
    \/ FeedFetchTracking("s1")
    \/ FeedFetchReactions("s1")
    \/ openStakeDialog("s1", "t1")
    \/ setStake("s1", "t1", "10")
    \/ handleStake("s1", "t1", "10")
    \/ \E type \in ReactionTypes : handleReact("s1", "t1", type)
    \/ \E actor \in {"alice", "bob"} : ApiReactionInsert(actor, actor, "t1", "like")

SpecViewer == InitViewer /\ [][NextViewer]_vars

(***************************************************************************)
(* Specification SpecRoles: the user_roles table under requests of anyone. *)
(* bob has not signed up yet; anon, alice, mod, bob once registered and    *)
(* root send inserts, updates and deletes on the role rows of alice, bob   *)
(* and root.                                                               *)
(***************************************************************************)
RoleActors == {Anon, "alice", "bob", "mod", "root"}

RoleTargets == {"alice", "bob", "root"}

InitRoles ==
    /\ now = 0
    /\ auth_users = Users \ {"bob"}
    /\ user_roles = {r \in InitialRoles : r.user_id # "bob"}
    /\ tips = {}
    /\ user_tracking = {}
    /\ tip_reactions = {}
    /\ tip_comments = {}
    /\ InitClients
    /\ role = [s \in Sessions |-> "user"]
    /\ roleData = [s \in Sessions |-> {}]
    /\ session = [s \in Sessions |-> FALSE]

NextRoles ==
    \/ \E id \in Users : signUp(id)
    \/ \E actor \in RoleActors, u \in RoleTargets, r \in app_role :
           ApiRolesInsert(actor, u, r)
    \/ \E actor \in RoleActors, u \in RoleTargets, r \in app_role,
             newRole \in app_role :
           ApiRolesUpdate(actor, u, r, newRole)
    \/ \E actor \in RoleActors, u \in RoleTargets, r \in app_role :
           ApiRolesDelete(actor, u, r)

SpecRoles == InitRoles /\ [][NextRoles]_vars

(***************************************************************************)
(* Specification SpecReact: two feed sessions of alice react to a          *)
(* published tip, and bob and mod send reaction requests of their own.     *)
(***************************************************************************)
InitReact ==
    /\ now = 0
    /\ user_roles = InitialRoles
    /\ tips = {Tip1}
    /\ user_tracking = {}
    /\ tip_reactions = {}
    /\ tip_comments = {}
    /\ InitClients
    /\ InitSignedIn

NextReact ==
    \/ \E s \in FeedSessions : FeedFetchReactions(s)
    \/ \E s \in FeedSessions, type \in ReactionTypes :
           handleReact(s, "t1", type)
    \/ \E actor \in {"bob", "mod"} : ApiReactionInsert(actor, "bob", "t1", "like")
    \/ \E actor \in {"bob", "mod"} : ApiReactionDelete(actor, "bob", "t1", "like")

SpecReact == InitReact /\ [][NextReact]_vars

(***************************************************************************)
(* Specification SpecStore: the user_tracking table under requests of      *)
(* alice, bob and mod, with two published tips that mod settles or deletes *)
(***************************************************************************)
StoreUsers == {"alice", "bob"}

StoreActors == {"alice", "bob", "mod"}

\* Stake amounts a request may carry, in thousandths.
StakeAmounts == {4, 10000, 20000}

InitStore ==
    /\ now = 0
    /\ user_roles = InitialRoles
    /\ tips = {Tip1, Tip2}
    /\ user_tracking = {}
    /\ tip_reactions = {}
    /\ tip_comments = {}
    /\ InitClients
    /\ InitSignedIn

NextStore ==
    \/ \E actor \in StoreUsers, u \in StoreUsers, id \in TipIds,
          milli \in StakeAmounts : ApiTrackingInsert(actor, u, id, milli)
    \/ \E actor \in StoreActors, u \in StoreUsers, id \in TipIds :
           ApiTrackingDelete(actor, u, id)
    \/ \E actor \in StoreActors, u \in StoreUsers, id \in TipIds :
           ApiTrackingUpdate(actor, u, id, 30000)
    \/ \E id \in TipIds, status \in tip_status :
           ApiTipsUpdate("mod", id, {<<"status", status>>})
    \/ \E actor \in {"alice", "mod"}, id \in TipIds : ApiTipsDelete(actor, id)

SpecStore == InitStore /\ [][NextStore]_vars

(***************************************************************************)
(* Specification SpecLB: the leaderboard over the stakes of NPlayers       *)
(* users on two published tips that mod settles.                           *)
(***************************************************************************)
\* More players than the leaderboard has places.
NPlayers == 12

Player(i) == "p" \o ToString(i)

Players == {Player(i) : i \in 1..NPlayers}

\* Who opens the leaderboard: a moderator, a player, a visitor.
LBViewers == {"mod", Player(3), Anon}

\* Every player but the first has a stake on t1, every odd player a stake
\* on t2: the first player's only stake is on t2.
PlayerStakes ==
    {[id |-> <<Player(i), "t1", 1>>, user_id |-> Player(i), tip_id |-> "t1",
      stake |-> 100 * ((i % 4) + 1)] : i \in 2..NPlayers}
        \cup {[id |-> <<Player(i), "t2", 1>>, user_id |-> Player(i),
               tip_id |-> "t2", stake |-> 500] :
                   i \in {j \in 1..NPlayers : j % 2 = 1}}

\* The (user, tip) pairs in the order of the players, and in the reverse
\* order: two of the orders in which the backend may return the rows.
StakeKeys ==
    [k \in 1..(2 * NPlayers) |->
        <<Player((k + 1) \div 2), IF k % 2 = 1 THEN "t1" ELSE "t2">>]

RowOrders == {"forward", "backward"}

OrderedKeys(order) ==
    IF order = "forward" THEN StakeKeys
    ELSE [k \in 1..Len(StakeKeys) |-> StakeKeys[Len(StakeKeys) + 1 - k]]

\* The rows the viewer's select returns, listed in the given order.
RowsInOrder(viewer, order) ==
    LET visible == tracking_select(viewer)
        stored(key) ==
            \E r \in visible : r.user_id = key[1] /\ r.tip_id = key[2]
        kept == SelectSeq(OrderedKeys(order), stored)
    IN  [n \in 1..Len(kept) |->
            LB_row(viewer,
                   CHOOSE r \in visible :
                       r.user_id = kept[n][1] /\ r.tip_id = kept[n][2])]

InitLB ==
    /\ now = 0
    /\ user_roles =
           InitialRoles \cup {[user_id |-> p, role |-> "user"] : p \in Players}
    /\ tips = {Tip1, Tip2}
    /\ user_tracking = PlayerStakes
    /\ tip_reactions = {}
    /\ tip_comments = {}
    /\ InitClients
    /\ InitSignedIn

NextLB ==
    \/ \E status \in {"won", "lost", "void"} :
           ApiTipsUpdate("mod", "t1", {<<"status", status>>})
    \/ \E status \in {"won", "lost"} :
           ApiTipsUpdate("mod", "t2", {<<"status", status>>})
    \/ ApiTrackingDelete(Player(3), Player(3), "t1")
    \/ \E viewer \in LBViewers, order \in RowOrders :
           fetchLeaderboard(viewer, RowsInOrder(viewer, order))

SpecLB == InitLB /\ [][NextLB]_vars

(***************************************************************************)
(* Properties of settlement, stakes and profit                             *)
(***************************************************************************)
\* The actor holds the moderator or the admin role in user_roles.
HoldsModeratorOrAdmin(actor) ==
    \E r \in user_roles :
        r.user_id = actor /\ r.role \in {"moderator", "admin"}

\* The profit of one stake as the specification defines it, in
\* ten-thousandths: stake x (odds - 1) when won, -stake when lost, else 0.
ExpectedProfit(amount, odds, status) ==
    IF status = "won" THEN amount * (odds - 100)
    ELSE IF status = "lost" THEN -(amount * 100)
    ELSE 0

\* The profit the leaderboard credits to a user (0 when it has no entry).
LB_profitOf(ranked, uid) ==
    IF LB_has(ranked, uid) THEN ranked[LB_index(ranked, uid)].total_profit
    ELSE 0

\* C1: for every stored stake and the tip it references, the user history
\* (summary and P/L cell), the dashboard total and the leaderboard compute,
\* for that stake alone, the profit the specification defines.
C1_ProfitAgrees ==
    \A r \in user_tracking :
        LET tip == TipById(tips, r.tip_id)
            expected == ExpectedProfit(r.stake, tip.odds, tip.status)
            own == {e \in UserHistoryEntries(r.user_id, r.user_id) :
                        e.id = r.id}
        IN  /\ Cardinality(own) = 1
            /\ UH_totalProfit(own) = expected
            /\ \A e \in own : UH_pl(e) = expected
            /\ Dash_totalProfit(tips_select("mod"), {r}) = expected
            /\ LB_profitOf(LB_rank(<<LB_row("mod", r)>>), r.user_id) = expected

\* C1 witness: a stake on a won tip and a stake on a lost or void tip are
\* stored.
C1_Witness ==
    /\ \E r \in user_tracking : TipById(tips, r.tip_id).status = "won"
    /\ \E r \in user_tracking : TipById(tips, r.tip_id).status \in {"lost", "void"}

\* C2: a tip whose stored status is won, lost or void keeps that status in
\* every step.
C2_SettledIsTerminal ==
    [][\A old \in tips : \A new \in tips' :
          (new.id = old.id /\ old.status \in {"won", "lost", "void"}) =>
              new.status = old.status]_vars

\* C6: no two rows of user_tracking have the same user and the same tip.
C6_OneStakePerUserAndTip ==
    \A r1 \in user_tracking : \A r2 \in user_tracking :
        (r1.user_id = r2.user_id /\ r1.tip_id = r2.tip_id) => r1 = r2

\* C6 witness: a session's handleStake met a stake stored by another
\* session and was refused by the unique constraint.
C6_Witness ==
    /\ resp.op = "tracking.insert"
    /\ resp.error = DuplicateMessage
    /\ user_tracking # {}
    /\ toast.session \in FeedSessions

\* The figures of a user's history summary.
UH_summary(userId) ==
    [totalStaked |-> UH_totalStaked(UserHistoryEntries(userId, userId)),
     totalProfit |-> UH_totalProfit(UserHistoryEntries(userId, userId)),
     roi |-> UH_roi(UserHistoryEntries(userId, userId))]

HasStake(userId, tipId) ==
    \E r \in user_tracking : r.user_id = userId /\ r.tip_id = tipId

\* C7: whenever handleStake sends an insert for a (user, tip) pair that has
\* a stake, the answer is the unique constraint's error, the toast is
\* "You already tracked this tip", and the stored stakes and the user's
\* totalStaked, totalProfit and ROI are what they were.
C7_DuplicateStake ==
    [][\A s \in FeedSessions : \A id \in TipIds : \A text \in StakeTexts :
          (/\ handleStake(s, id, text)
           /\ ~InvalidStake(parseFloat(text))
           /\ HasStake(SessionUser(s), id)) =>
              /\ resp'.error = DuplicateMessage
              /\ toast' = Toast(s, "You already tracked this tip")
              /\ user_tracking' = user_tracking
              /\ UH_summary(SessionUser(s))' = UH_summary(SessionUser(s))]_vars

\* The part of C7 that holds: the same, for amounts that round to at least
\* one hundredth.
C7_DuplicateStorableStake ==
    [][\A s \in FeedSessions : \A id \in TipIds : \A text \in StakeTexts :
          (/\ handleStake(s, id, text)
           /\ ~InvalidStake(parseFloat(text))
           /\ numeric_10_2(parseFloat(text).milli) > 0
           /\ HasStake(SessionUser(s), id)) =>
              /\ resp'.error = DuplicateMessage
              /\ toast' = Toast(s, "You already tracked this tip")
              /\ user_tracking' = user_tracking
              /\ UH_summary(SessionUser(s))' = UH_summary(SessionUser(s))]_vars

\* C8: every row a step adds to user_tracking references a tip whose stored
\* status is pending.
C8_StakeOnlyWhilePending ==
    [][\A r \in user_tracking' \ user_tracking :
          \E tip \in tips : tip.id = r.tip_id /\ tip.status = "pending"]_vars

\* C9 as claimed: a stored stake is never changed, and a step removes it
\* only when its owner deleted it.
C9_OnlyOwnerRemoves ==
    [][\A r \in user_tracking :
          \/ r \in user_tracking'
          \/ /\ \A x \in user_tracking' : x.id # r.id
             /\ resp'.op = "tracking.delete"
             /\ resp'.actor = r.user_id]_vars

\* C9 as amended: a stored stake is never changed, and a step removes it
\* only when its owner deleted it or when a moderator or admin deleted the
\* tip it references, which removes every stake on that tip.
C9_OwnerOrCascadeRemoves ==
    [][\A r \in user_tracking :
          \/ r \in user_tracking'
          \/ /\ \A x \in user_tracking' : x.id # r.id
             /\ \/ /\ resp'.op = "tracking.delete"
                   /\ resp'.actor = r.user_id
                \/ /\ resp'.op = "tips.delete"
                   /\ HoldsModeratorOrAdmin(resp'.actor)
                   /\ r.tip_id \notin TipIdsIn(tips')
                   /\ \A x \in user_tracking' : x.tip_id # r.tip_id]_vars

\* C9 witness: a moderator has deleted a tip, and the stakes on the other
\* tip are still stored.
C9_Witness ==
    /\ resp.op = "tips.delete"
    /\ resp.rows = 1
    /\ Cardinality(tips) = 1
    /\ user_tracking # {}

(***************************************************************************)
(* Properties of the tips table (SpecTips)                                 *)
(***************************************************************************)
\* The bet terms the anti-cheat rule protects.
BetTerms == {"odds", "bet_type", "match_name"}

ChangesBetTerms(old, patch) ==
    \E p \in patch : p[1] \in BetTerms /\ p[2] # old[p[1]]

C4_OnlyStatusAfterStart ==
    [][\A old \in tips : \A new \in tips' :
          (new.id = old.id /\ old.match_start_time <= now) =>
              \A c \in TipColumns \ {"status"} : new[c] = old[c]]_vars

\* C5: a step changes the tips table only when the request was sent by an
\* actor holding the moderator or admin role; a request of any other actor
\* leaves the table as it was; every actor reads all the tips.
C5_TipWritesNeedRole ==
    [][/\ tips' # tips => HoldsModeratorOrAdmin(resp'.actor)
       /\ (resp' # resp /\ resp'.op \in {"tips.insert", "tips.update"}
             /\ resp'.rows > 0) => HoldsModeratorOrAdmin(resp'.actor)
       /\ \A actor \in Actors : tips_select(actor) = tips
       /\ \A actor \in Actors : tips_select(actor)' = tips']_vars

\* C5 witness: a plain user's update of a stored tip has been answered, and
\* it touched no row.
C5_Witness ==
    /\ resp.op = "tips.update"
    /\ resp.actor = "alice"
    /\ resp.rows = 0
    /\ tips # {}

(***************************************************************************)
(* Properties of the leaderboard                                           *)
(***************************************************************************)
\* The stake's tip is pending, void or cannot be resolved.
OnUnsettledTip(r) ==
    r.tip_id \notin TipIdsIn(tips)
        \/ TipById(tips, r.tip_id).status \in {"pending", "void"}

\* C10: the list a leaderboard fetch shows has at most 10 entries, each
\* entry's total_profit is at least that of the entry after it, and a user
\* all of whose stored stakes reference pending or void (or unresolved)
\* tips has no entry.
C10_Leaderboard ==
    [][(\E viewer \in LBViewers, order \in RowOrders :
            fetchLeaderboard(viewer, RowsInOrder(viewer, order)))
        => /\ Len(entries') <= 10
           /\ \A k \in 1..(Len(entries') - 1) :
                  entries'[k].total_profit >= entries'[k + 1].total_profit
           /\ \A u \in Players :
                  (\A r \in user_tracking : r.user_id = u => OnUnsettledTip(r))
                      => \A k \in 1..Len(entries') : entries'[k].user_id # u]_vars

\* C10, witness: a fetched leaderboard is full while more than 10 users
\* have a stake on a settled tip, its profits are not all equal, and a
\* user whose fetched stakes are all on unsettled tips is left out.
C10_Witness ==
    /\ Len(entries) = 10
    /\ Cardinality({r.user_id : r \in {x \in user_tracking :
                                            ~OnUnsettledTip(x)}}) > 10
    /\ \E k \in 1..(Len(entries) - 1) :
           entries[k].total_profit > entries[k + 1].total_profit
    /\ \E n \in 1..Len(trackingData) :
           /\ \A m \in 1..Len(trackingData) :
                  trackingData[m].user_id = trackingData[n].user_id
                      => trackingData[m].tips.status \in {"pending", "void"}
           /\ \A r \in user_tracking :
                  r.user_id = trackingData[n].user_id => OnUnsettledTip(r)
           /\ \A k \in 1..Len(entries) :
                  entries[k].user_id # trackingData[n].user_id

\* The stored stakes of a user on won or lost tips.
SettledStakes(u) ==
    {r \in user_tracking : r.user_id = u /\ ~OnUnsettledTip(r)}

\* C11: in the list a leaderboard fetch shows, every entry's total_staked is
\* the sum of its user's stakes on won or lost tips, total_bets their
\* number, wins the number of them on won tips and total_profit the sum of
\* their profits: a stake on a pending or void tip adds to none of them.
C11_EntryCountsSettledOnly ==
    [][(\E viewer \in LBViewers, order \in RowOrders :
            fetchLeaderboard(viewer, RowsInOrder(viewer, order)))
        => \A k \in 1..Len(entries') :
             LET e == entries'[k]
                 settled == SettledStakes(e.user_id)
             IN  /\ e.total_staked = SumValues({<<r.id, r.stake>> : r \in settled})
                 /\ e.total_bets = Cardinality(settled)
                 /\ e.wins =
                        Cardinality({r \in settled :
                            TipById(tips, r.tip_id).status = "won"})
                 /\ e.total_profit =
                        SumValues({<<r.id,
                                     ExpectedProfit(r.stake,
                                         TipById(tips, r.tip_id).odds,
                                         TipById(tips, r.tip_id).status)>> :
                                   r \in settled})]_vars

\* C11, witness: a fetched leaderboard has an entry of a user who holds a
\* stake on a lost tip and a stake on a pending tip, both among the rows
\* fetched, and the entry counts one bet and no win.
C11_Witness ==
    \E k \in 1..Len(entries) :
        /\ entries[k].total_bets = 1
        /\ entries[k].wins = 0
        /\ \E n, m \in 1..Len(trackingData) :
               /\ trackingData[n].user_id = entries[k].user_id
               /\ trackingData[m].user_id = entries[k].user_id
               /\ trackingData[n].tips.status = "lost"
               /\ trackingData[m].tips.status = "pending"
        /\ Cardinality(SettledStakes(entries[k].user_id)) = 1
        /\ \E r \in user_tracking :
               r.user_id = entries[k].user_id /\ OnUnsettledTip(r)

\* C25: for one set of stake rows the ranked list is the same whatever the
\* order in which the backend returns the rows, also when users have equal
\* total_profit.
C25_RankIndependentOfRowOrder ==
    LB_rank(RowsInOrder("mod", "forward"))
        = LB_rank(RowsInOrder("mod", "backward"))

\* C27: for one state of the store the leaderboard computed for a viewer
\* holding only the user role, or not signed in, equals the one computed
\* for a moderator.
C27_RankIndependentOfViewer ==
    \A viewer \in LBViewers :
        LB_rank(RowsInOrder(viewer, "forward"))
            = LB_rank(RowsInOrder("mod", "forward"))

(***************************************************************************)
(* Properties of the summaries                                             *)
(***************************************************************************)
\* The stored stakes of a user, and their sum in hundredths.
StakesOf(u) == {r \in user_tracking : r.user_id = u}

SumOfStakes(rows) == SumValues({<<r.id, r.stake>> : r \in rows})

\* The sum of the profits the specification defines for the stored stakes.
SumOfProfits(rows) ==
    SumValues({<<r.id, ExpectedProfit(r.stake, TipById(tips, r.tip_id).odds,
                                      TipById(tips, r.tip_id).status)>> :
               r \in rows})

\* roi is a fraction that is 0 when staked is 0 and profit / staked else.
IsRoiOf(roi, profit, staked) ==
    /\ roi.den # 0
    /\ IF staked = 0 THEN roi.num = 0
       ELSE roi.num = profit /\ roi.den = staked

\* The orders in which a set of rows can be returned.
Listings(rows) ==
    {f \in [1..Cardinality(rows) -> rows] :
        \A i, j \in 1..Cardinality(rows) : f[i] = f[j] => i = j}

\* C12: the ROI of the user history, of the dashboard and of every
\* leaderboard entry is 0 when the total staked of its grouping is 0 and
\* totalProfit / totalStaked x 100 otherwise, and no ROI divides by zero.
C12_Roi ==
    /\ \A u \in StoreActors :
           IsRoiOf(UH_roi(UserHistoryEntries(u, u)),
                   SumOfProfits(StakesOf(u)), SumOfStakes(StakesOf(u)))
    /\ IsRoiOf(Dash_roi(tips_select("mod"), tracking_select("mod")),
               SumOfProfits(user_tracking), SumOfStakes(user_tracking))
    /\ \A rows \in Listings({LB_row("mod", r) : r \in tracking_select("mod")}) :
           \A k \in 1..Len(LB_rank(rows)) :
               IsRoiOf(LB_roi(LB_rank(rows)[k]), LB_rank(rows)[k].total_profit,
                       LB_rank(rows)[k].total_staked)

\* C12, witness: one user has staked nothing while another has a stake on
\* a won tip and a stake on a lost tip, so that the three ROIs are taken
\* of a zero and of a positive total.
C12_Witness ==
    /\ \E u \in StoreUsers : StakesOf(u) = {}
    /\ \E u \in StoreUsers :
           /\ \E r \in StakesOf(u) : TipById(tips, r.tip_id).status = "won"
           /\ \E r \in StakesOf(u) : TipById(tips, r.tip_id).status = "lost"
           /\ UH_roi(UserHistoryEntries(u, u)).num # 0

\* C13: the total staked of the user history and of the dashboard is the
\* sum of all the stakes fetched, whatever the status of their tips, and a
\* step that only changes the status of tips leaves both totals as they
\* were.
C13_TotalStakedCountsEveryStake ==
    /\ [](/\ \A u \in StoreActors :
              UH_totalStaked(UserHistoryEntries(u, u)) = SumOfStakes(StakesOf(u))
          /\ Dash_totalStakes(tracking_select("mod"))
                 = SumOfStakes(user_tracking))
    /\ [][tips' # tips /\ user_tracking' = user_tracking
            => /\ \A u \in StoreActors :
                      UH_totalStaked(UserHistoryEntries(u, u))'
                          = UH_totalStaked(UserHistoryEntries(u, u))
               /\ Dash_totalStakes(tracking_select("mod"))'
                      = Dash_totalStakes(tracking_select("mod"))]_vars

\* C13, witness: a user has a stake on a pending tip and a stake on a void
\* tip, so the user's total staked counts stakes that are not settled.
C13_Witness ==
    \E u \in StoreUsers :
        /\ \E r \in StakesOf(u) : TipById(tips, r.tip_id).status = "void"
        /\ \E r \in StakesOf(u) : TipById(tips, r.tip_id).status = "pending"
        /\ UH_totalStaked(UserHistoryEntries(u, u)) > 0

\* C15: the win rate of the user history is 0 when the user has no stake
\* on a won or lost tip, and else wins / (wins + losses) x 100 with wins
\* and losses the numbers of the user's stakes on won and on lost tips; it
\* lies between 0 and 100, and so does the number shown.
C15_WinRate ==
    \A u \in StoreActors :
        LET wins == Cardinality({r \in StakesOf(u) :
                        TipById(tips, r.tip_id).status = "won"})
            losses == Cardinality({r \in StakesOf(u) :
                          TipById(tips, r.tip_id).status = "lost"})
            rate == UH_winRate(UserHistoryEntries(u, u))
            shown == UH_winRateShown(UserHistoryEntries(u, u))
        IN  /\ rate.den > 0
            /\ IF wins + losses = 0 THEN rate.num = 0 /\ shown = 0
               ELSE /\ rate.num * (wins + losses) = wins * 100 * rate.den
                    /\ 2 * shown * (wins + losses) >= 200 * wins - (wins + losses)
                    /\ 2 * shown * (wins + losses) <= 200 * wins + (wins + losses)
            /\ 0 <= rate.num /\ rate.num <= 100 * rate.den
            /\ 0 <= shown /\ shown <= 100

\* C15, witness: a user has a stake on a won tip and a stake on a pending
\* tip (win rate 100), and another a stake on the pending tip only (win
\* rate 0).
C15_Witness ==
    /\ \E u \in StoreUsers :
           /\ \E r \in StakesOf(u) : TipById(tips, r.tip_id).status = "won"
           /\ \E r \in StakesOf(u) : TipById(tips, r.tip_id).status = "pending"
           /\ UH_winRateShown(UserHistoryEntries(u, u)) = 100
    /\ \E u \in StoreUsers :
           /\ StakesOf(u) # {}
           /\ \A r \in StakesOf(u) : TipById(tips, r.tip_id).status = "pending"
           /\ UH_winRate(UserHistoryEntries(u, u)).num = 0

\* Two fractions of the same value.
SameFraction(a, b) == a.num * b.den = b.num * a.den

\* The fetched stakes of a dashboard whose tip is among its fetched tips.
DashResolved(d) ==
    {t \in dashTracking[d] : t.tip_id \in TipIdsIn(dashTips[d])}

\* C14: once a dashboard has fetched its tips and its stakes, a stake whose
\* tip is missing from the fetched tips has no effect on total profit,
\* total staked and ROI: each equals its value over the stakes whose tip is
\* among the fetched tips.
C14_MissingTipHasNoEffect ==
    \A d \in DashSessions :
        ~dashTipsStale[d] /\ ~dashTrackingStale[d]
            => /\ Dash_totalProfit(dashTips[d], dashTracking[d])
                      = Dash_totalProfit(dashTips[d], DashResolved(d))
               /\ Dash_totalStakes(dashTracking[d])
                      = Dash_totalStakes(DashResolved(d))
               /\ SameFraction(Dash_roi(dashTips[d], dashTracking[d]),
                               Dash_roi(dashTips[d], DashResolved(d)))

\* C22: the dashboard aggregates a self-consistent snapshot: once its two
\* fetches have returned, every stake in the fetched set references a tip
\* in the fetched set, whatever writes of other sessions interleave with
\* the fetches.
C22_SelfConsistentSnapshot ==
    \A d \in DashSessions :
        ~dashTipsStale[d] /\ ~dashTrackingStale[d]
            => \A t \in dashTracking[d] : t.tip_id \in TipIdsIn(dashTips[d])

\* C23: every change of the tips table marks a fetchTips call as
\* outstanding for the mounted feed, and once no call and no answer is
\* outstanding the tips held by the view are the tips in the store, in
\* whatever order the answers arrived.
C23_FeedCatchesUp ==
    /\ [][tips' # tips => feedTipsStale'["s1"]]_vars
    /\ [](~feedTipsStale["s1"] /\ tipsResponses["s1"] = {}
            => feedTips["s1"] = tips_select(SessionUser("s1")))

\* C23, with the answers handled in the order of the calls: when at most
\* one answer is ever on its way, the view catches up with the store.
C23_FeedCatchesUpInOrder ==
    [](\A s \in FeedSessions : Cardinality(tipsResponses[s]) <= 1)
        => [](~feedTipsStale["s1"] /\ tipsResponses["s1"] = {}
                => feedTips["s1"] = tips_select(SessionUser("s1")))

(***************************************************************************)
(* Properties of reactions                                                 *)
(***************************************************************************)
\* The (user, tip, type) triples a table holds.
ReactionKeys(tbl) == {<<r.user_id, r.tip_id, r.reaction_type>> : r \in tbl}

\* The session's fetched map is the map of the stored rows and no fetch is
\* outstanding.
ReactionsInSync(s) ==
    /\ ~reactionsStale[s]
    /\ reactions[s] = ReactionSummary(reaction_select(tip_reactions, SessionUser(s)),
                                      SessionUser(s))

\* The table after handleReact is invoked twice by user uid whose fetched
\* map is view, the map being fetched again in between (refetched) or not.
ReactTwice(view, uid, tipId, type, refetched) ==
    LET once == reactRequest(tip_reactions, view, uid, tipId, type).tip_reactions
        viewThen == IF refetched
                      THEN ReactionSummary(reaction_select(once, uid), uid)
                      ELSE view
    IN  reactRequest(once, viewThen, uid, tipId, type).tip_reactions

\* C16: from a state where a session's reaction map matches the store, two
\* invocations of handleReact for the same tip and type leave the stored
\* reactions, hence the counts and flags fetched from them, as they were,
\* whether or not the map was fetched again between the two.
C16_ReactTwiceRestores ==
    \A s \in FeedSessions, type \in ReactionTypes, refetched \in BOOLEAN :
        ReactionsInSync(s)
            => LET twice == ReactTwice(reactions[s], SessionUser(s), "t1",
                                       type, refetched)
               IN  /\ ReactionKeys(twice) = ReactionKeys(tip_reactions)
                   /\ ReactionSummary(twice, SessionUser(s)) = reactions[s]

\* C16 with the map fetched again between the two invocations: the second
\* invocation undoes the first.
C16_ReactTwiceRefetched ==
    \A s \in FeedSessions, type \in ReactionTypes :
        ReactionsInSync(s)
            => ReactionKeys(ReactTwice(reactions[s], SessionUser(s), "t1",
                                       type, TRUE))
                   = ReactionKeys(tip_reactions)

\* C17: the store holds at most one reaction per (user, tip, type), and a
\* handleReact that tries to create a reaction that is already stored,
\* its flag being stale, leaves the table as it is, shows no error and
\* goes on to fetch the reactions.
C17_OneReactionPerKey ==
    /\ [](\A r1, r2 \in tip_reactions :
              <<r1.user_id, r1.tip_id, r1.reaction_type>>
                  = <<r2.user_id, r2.tip_id, r2.reaction_type>> => r1 = r2)
    /\ [][\A s \in FeedSessions, type \in ReactionTypes :
            (/\ handleReact(s, "t1", type)
             /\ ~reactionFlag(reactions[s], "t1", type)
             /\ <<SessionUser(s), "t1", type>> \in ReactionKeys(tip_reactions))
                => /\ tip_reactions' = tip_reactions
                   /\ toast' = toast
                   /\ reactionsStale'[s]]_vars

\* C17, witness: a handleReact of a session with a stale flag has just been
\* answered with the unique violation, and the reaction is stored once.
C17_Witness ==
    /\ resp.op = "reactions.insert"
    /\ resp.error = DuplicateMessage
    /\ resp.actor = "alice"
    /\ \E s \in FeedSessions, type \in ReactionTypes :
           /\ reactionsStale[s]
           /\ ~reactionFlag(reactions[s], "t1", type)
           /\ Cardinality(ReactionCopies(tip_reactions, "alice", "t1", type)) = 1

(***************************************************************************)
(* Properties of the create form and of the stake dialog                   *)
(***************************************************************************)
\* The least odds in hundredths, the unit of the odds column.
MinStoredOdds == numeric_10_2(MinOdds)

\* C18: every tip row in the store has odds of at least 1.01 in every
\* reachable state, whether it was written through handleCreateTip or
\* directly at the storage boundary by an actor the tips policies allow.
C18_OddsAtLeastMinimum == \A t \in tips : t.odds >= MinStoredOdds

\* C18, the part the form guarantees: a row that handleCreateTip adds to
\* the store has odds of at least 1.01.
C18_CreatedOddsAtLeastMinimum ==
    [][handleCreateTipAwait("d1")
         => \A t \in tips' \ tips : t.odds >= MinStoredOdds]_vars

\* The input to the create form that is to fail validation: odds that are
\* not a number or are below 1.01, a match name, sport or bet type that is
\* empty or longer than its limit once trimmed, an analysis of more than
\* 2000 characters, a missing start time.
EmptyOrOverLong(text, limit) ==
    trim(text) = "" \/ Len(trim(text)) > limit

FailsValidation(form) ==
    \/ parseFloat(form.odds).nan
    \/ parseFloat(form.odds).milli < 1010
    \/ EmptyOrOverLong(form.matchName, 200)
    \/ EmptyOrOverLong(form.sport, 50)
    \/ EmptyOrOverLong(form.betType, 200)
    \/ Len(form.analysis) > 2000
    \/ form.matchStartTime = ""

\* A stake that is not a number greater than 0.
NotAPositiveNumber(text) ==
    parseFloat(text).nan \/ ~(parseFloat(text).milli > 0)

\* Nothing was sent to the backend and no stored row changed, the session
\* is shown a message, and the forms and the submitting flag are as before.
RejectedWithMessage(s) ==
    /\ store' = store
    /\ resp' = resp
    /\ toast'.session = s
    /\ toast'.text \notin {"Tip created!", "Tip tracked!"}
    /\ forms' = forms

C20_HighestRoleHeld ==
    /\ [](\A s \in Sessions :
             isModerator(s) <=> role[s] \in {"moderator", "admin"})
    /\ [][\A s \in AuthSessions, data \in SUBSET app_role :
              (fetchRoleThen(s, data) /\ data # {})
                 => /\ "admin" \in data => role'[s] = "admin"
                    /\ ("admin" \notin data /\ "moderator" \in data)
                          => role'[s] = "moderator"
                    /\ ("admin" \notin data /\ "moderator" \notin data)
                          => role'[s] = "user"]_vars

\* C20 witness: mod holds the three roles, the answer to fetchRole has been
\* handled and the dashboard session's role is admin.
C20_Witness ==
    /\ rolesOf(user_roles, "mod") = {"user", "moderator", "admin"}
    /\ session["d1"]
    /\ roleData["d1"] = {}
    /\ role["d1"] = "admin"
    /\ isModerator("d1")

\* C28: in every reachable state of the auth provider, a session with no
\* user signed in has the role user and isModerator false, whatever the
\* order of auth state changes, signOut and late answers to fetchRole.
C28_SignedOutRoleIsUser ==
    \A s \in Sessions :
        ~session[s] => role[s] = "user" /\ ~isModerator(s)

\* C28 once every answer to fetchRole has been handled: a session with no
\* user and no answer outstanding may still hold the role of the user who
\* signed out.
C28_SignedOutRoleIsUserAtRest ==
    \A s \in Sessions :
        ~session[s] /\ roleData[s] = {} => role[s] = "user"

(***************************************************************************)
(* Properties of comments                                                  *)
(***************************************************************************)
\* C21: every comment row in the store has content of between 1 and 500
\* characters, whether it was written through handleSubmit or inserted
\* directly at the storage boundary by an authenticated actor.
C21_ContentLength ==
    \A c \in tip_comments : Len(c.content) >= 1 /\ Len(c.content) <= 500

\* C21, the part the panel guarantees: a row that handleSubmit adds to the
\* store has content of between 1 and 500 characters.
C21_SubmittedContentLength ==
    [][handleSubmitAwait("s1", "t1")
         => \A c \in tip_comments' \ tip_comments :
                Len(c.content) >= 1 /\ Len(c.content) <= 500]_vars

(***************************************************************************)
(* Properties of refused writes                                            *)
(***************************************************************************)
\* A step of one of the four writing handlers that sends its request.
CreateWrite == handleCreateTipAwait("d1")

StatusWrite ==
    \E status \in {"won", "lost"} :
        updateTipStatus("d1", "t1", status)
            \/ updateTipStatusOffline("d1", "t1", status)

StakeWrite == handleStake("s1", "t1", "10")

CommentWrite == handleSubmitAwait("s1", "t1")

\* The stored rows, the fetched lists and the form inputs are as before and
\* no fetch has been called.
NothingButTheMessage ==
    /\ store' = store
    /\ tip_comments' = tip_comments
    /\ <<feedTips, trackedTips, comments, dashTips, dashTracking>>'
           = <<feedTips, trackedTips, comments, dashTips, dashTracking>>
    /\ <<feedTipsStale, trackedStale, dashTipsStale, dashTrackingStale,
          reactionsStale>>'
           = <<feedTipsStale, trackedStale, dashTipsStale, dashTrackingStale,
               reactionsStale>>
    /\ <<createForm, stake, stakeOpen, newComment>>'
           = <<createForm, stake, stakeOpen, newComment>>
    /\ toast' # NoToast
    /\ toast'.text \notin {"Tip created!", "Tip tracked!",
                            "Tip marked as won", "Tip marked as lost"}

Viewer(s) == IF session[s] THEN SessionUser(s) ELSE Anon

\* C26: when fetchReactions completes, the map it stores has for every tip
\* the like and fire counts of the fetched rows, and userLiked and
\* userFired true exactly when the viewer signed in at that moment owns
\* such a row; with no viewer signed in both flags are false.
C26_FlagsOfSignedInViewer ==
    [][\A s \in FeedSessions :
          FeedFetchReactions(s)
              => reactions'[s] =
                     ReactionSummary(reaction_select(tip_reactions, Viewer(s)),
                                     Viewer(s))]_vars

\* C26, the counts alone: the like and fire counts that fetchReactions
\* stores are those of the fetched rows, whoever the viewer is.
C26_CountsOfFetchedRows ==
    [][\A s \in FeedSessions :
          FeedFetchReactions(s)
              => LET fetched == ReactionSummary(
                                    reaction_select(tip_reactions, Viewer(s)),
                                    Viewer(s))
                 IN  /\ DOMAIN reactions'[s] = DOMAIN fetched
                     /\ \A t \in DOMAIN fetched :
                            /\ reactions'[s][t].like = fetched[t].like
                            /\ reactions'[s][t].fire = fetched[t].fire]_vars

\* C29: once fetchTracking has run for the current user, every tip the
\* feed shows as tracked carries a stake of the user signed in to the
\* session; signed out, the session shows no tip as tracked.
C29_TrackedOnlyForSignedInUser ==
    \A s \in FeedSessions :
        ~trackedStale[s]
            => \A t \in trackedTips[s] :
                   /\ session[s]
                   /\ \E r \in user_tracking : /\ r.user_id = SessionUser(s)
                                                /\ r.tip_id = t

\* C29 while the user stays signed in: the tracked set fetched for the
\* signed-in user holds only tips that user has a stake on.
C29_TrackedWhileSignedIn ==
    \A s \in FeedSessions :
        session[s] /\ ~trackedStale[s]
            => \A t \in trackedTips[s] :
                   \E r \in user_tracking : /\ r.user_id = SessionUser(s)
                                            /\ r.tip_id = t

(***************************************************************************)
(* Properties of role assignment                                           *)
(***************************************************************************)
\* The step is a sign-up: one id joins auth.users and the role rows gain
\* the row (id, user) and nothing else.
SignUpStep ==
    \E id \in Users \ auth_users :
        /\ auth_users' = auth_users \cup {id}
        /\ user_roles' = user_roles \cup {[user_id |-> id, role |-> "user"]}

\* The step is a write to user_roles asked for by an actor who held the
\* admin role when asking.
AdminWriteStep ==
    /\ resp'.op \in {"roles.insert", "roles.update", "roles.delete"}
    /\ Authenticated(resp'.actor)
    /\ has_role(resp'.actor, "admin")

\* C30: the role rows change only by a write of an actor who already holds
\* admin, or by the sign-up trigger, which gives the new user the role user
\* and nothing else; no request of a non-admin adds, changes or removes a
\* role row, so moderator and admin are acquired only through an admin.
C30_RolesChangeOnlyThroughAdmin ==
    /\ [][user_roles' # user_roles => AdminWriteStep \/ SignUpStep]_vars
    /\ [][\A id \in Users :
             id \notin auth_users /\ id \in auth_users'
                 => rolesOf(user_roles', id) = {"user"}]_vars
    /\ [][\A u \in Users, r \in {"moderator", "admin"} :
             ~has_role(u, r) /\ [user_id |-> u, role |-> r] \in user_roles'
                 => AdminWriteStep]_vars

\* C30, witness: bob has signed up and holds exactly the role user, root
\* has made alice a moderator, and mod's insert of an admin row for
\* themselves has just been refused.
C30_Witness ==
    /\ "bob" \in auth_users
    /\ rolesOf(user_roles, "bob") = {"user"}
    /\ has_role("alice", "moderator")
    /\ resp = Response("roles.insert", "mod", RlsMessage, 0)
    /\ ~has_role("mod", "admin")

====
